---- MODULE Spec2Model ----
(***************************************************************************)
(* Model of rpc/transport.go: StreamTransport over an io.ReadWriteCloser.  *)
(*                                                                         *)
(* Three callers use one transport concurrently, as the package allows:    *)
(*   - the send side  (NewMessage / send / cancel / CloseSend),            *)
(*   - the receive side (RecvMessage),                                     *)
(*   - the closer of the receive side (CloseRecv, which the Receiver       *)
(*     contract lets run while a RecvMessage is unfinished).               *)
(* Every call on the underlying stream is a step of its own, so that the   *)
(* calls of the three callers interleave as goroutines do.  A Go panic     *)
(* ends the goroutine that raised it (pc = "panic").                       *)
(***************************************************************************)
EXTENDS Integers, Sequences, FiniteSets, TLC

\* Bounds of the model: how often each caller repeats its calls.
MaxCloseSend == 2
MaxCloseRecv == 2
MaxNewMessage == 2
MaxRecvMessage == 2
MaxFrames == 2
MaxAccessorCalls == 2
\* The largest Exception_Type value tried, beside 65535.
MaxExceptionType == 15
MaxCapTable == 2
MaxTransform == 2

nil == "nil"

VARIABLES
    rwc,      \* the stream's optional interfaces: which of them it implements
    s,        \* the StreamTransport: deadline, cw, recv, mu, closes
    conn,     \* state of the underlying stream
    ops,      \* the close primitives called on the stream so far, in order
    snd,      \* the send-side caller and the locals of its running call
    rcl,      \* the caller of CloseRecv and the locals of its running call
    rcv,      \* the caller of RecvMessage and the locals of its running call
    sr,       \* signalReceiver: is the channel sr.close closed
    dec,      \* the Decode calls started on the shared decoder
    env       \* the message the caller builds through the accessors

vars == <<rwc, s, conn, ops, snd, rcl, rcv, sr, dec, env>>

----------------------------------------------------------------------------
(* capnp.Struct: a data section of bytes and a pointer section *)

\* A pointer is null, or it leads to a struct, or to a list of structs.
NoStruct == [type |-> "none", data |-> <<>>, ptrs |-> <<>>]
NullPtr == [kind |-> "null", elems |-> <<>>]
StructPtr(st) == [kind |-> "struct", elems |-> <<st>>]
ListPtr(sts) == [kind |-> "list", elems |-> sts]

\* List.Len(), List.Struct(i) and List.SetStruct(i, st) on the list that a
\* pointer leads to: an index outside the list gives the zero struct, and
\* SetStruct then changes nothing and returns an error.
ListLen(p) == Len(p.elems)
ListStruct(p, i) ==
    IF i + 1 \in DOMAIN p.elems THEN p.elems[i + 1] ELSE NoStruct
ListSetStruct(p, i, st) ==
    IF i + 1 \in DOMAIN p.elems
    THEN [p |-> [p EXCEPT !.elems[i + 1] = st], err |-> "nil"]
    ELSE [p |-> p, err |-> "errOutOfBounds"]

\* capnp.NewStruct(s, ObjectSize{DataSize, PointerCount}): all zero.
NewStruct(type, dataSize, pointerCount) ==
    [type |-> type,
     data |-> [i \in 1..dataSize |-> 0],
     ptrs |-> [i \in 1..pointerCount |-> NullPtr]]

\* A 32-bit value, as its two 16-bit halves: hi * 2^16 + lo.
U32(hi, lo) == [hi |-> hi, lo |-> lo]
MaxUint32 == U32(65535, 65535)

\* Struct.Uint16(off) and Struct.Uint32(off): little-endian, zero when the
\* field lies outside the data section.
Uint16(st, off) ==
    IF off + 2 <= Len(st.data)
    THEN st.data[off + 1] + 256 * st.data[off + 2]
    ELSE 0
Uint32(st, off) ==
    IF off + 4 <= Len(st.data)
    THEN U32(st.data[off + 3] + 256 * st.data[off + 4],
             st.data[off + 1] + 256 * st.data[off + 2])
    ELSE U32(0, 0)

\* Struct.SetUint16(off, v) and Struct.SetUint32(off, v).
SetUint16(st, off, v) ==
    [st EXCEPT !.data = [i \in 1..Len(st.data) |->
        IF i = off + 1 THEN v % 256
        ELSE IF i = off + 2 THEN (v \div 256) % 256
        ELSE st.data[i]]]
SetUint32(st, off, v) ==
    [st EXCEPT !.data = [i \in 1..Len(st.data) |->
        IF i = off + 1 THEN v.lo % 256
        ELSE IF i = off + 2 THEN (v.lo \div 256) % 256
        ELSE IF i = off + 3 THEN v.hi % 256
        ELSE IF i = off + 4 THEN (v.hi \div 256) % 256
        ELSE st.data[i]]]

\* A 64-bit value, as its two 32-bit halves, and Struct.Uint64(off) and
\* Struct.SetUint64(off, v): little-endian, the low half first.
U64(hi, lo) == [hi |-> hi, lo |-> lo]
Uint64(st, off) ==
    IF off + 8 <= Len(st.data)
    THEN U64(Uint32(st, off + 4), Uint32(st, off))
    ELSE U64(U32(0, 0), U32(0, 0))
SetUint64(st, off, v) == SetUint32(SetUint32(st, off, v.lo), off + 4, v.hi)

\* Struct.Bit(n) and Struct.SetBit(n, v): bit n % 8 of byte n / 8, false
\* when the byte lies outside the data section.
Pow2(k) == CASE k = 0 -> 1 [] k = 1 -> 2 [] k = 2 -> 4 [] k = 3 -> 8
             [] k = 4 -> 16 [] k = 5 -> 32 [] k = 6 -> 64 [] OTHER -> 128
Bit(st, n) ==
    IF (n \div 8) + 1 <= Len(st.data)
    THEN (st.data[(n \div 8) + 1] \div Pow2(n % 8)) % 2 = 1
    ELSE FALSE
SetBit(st, n, v) ==
    [st EXCEPT !.data = [i \in 1..Len(st.data) |->
        IF i = (n \div 8) + 1
        THEN st.data[i] - (IF Bit(st, n) THEN Pow2(n % 8) ELSE 0)
                        + (IF v THEN Pow2(n % 8) ELSE 0)
        ELSE st.data[i]]]

\* Struct.Ptr(i): the pointer in slot i, null when the struct has no such
\* slot, and an error when the pointer cannot be read.
Ptr(st, i) ==
    IF i + 1 <= Len(st.ptrs)
    THEN [p |-> st.ptrs[i + 1],
          err |-> IF st.ptrs[i + 1].kind = "bad" THEN "errPtr" ELSE nil]
    ELSE [p |-> NullPtr, err |-> nil]
\* Ptr.IsValid()
IsValid(p) == p.kind # "null"
\* Struct.SetPtr(i, p), when it succeeds.
SetPtr(st, i, p) == [st EXCEPT !.ptrs[i + 1] = p]
\* v.Struct.ToPtr(): the zero struct gives the null pointer.
ToPtr(st) == IF st = NoStruct THEN NullPtr ELSE StructPtr(st)

----------------------------------------------------------------------------
(* The generated struct types and their unions *)

\* ObjectSize of each struct type, as its New function passes it.
DataSize(type) ==
    CASE type = "Call" -> 24
      [] type = "Return" -> 16
      [] type = "Payload" -> 0
      [] OTHER -> 8
PointerCount(type) ==
    CASE type = "Call" -> 3
      [] type \in {"Provide", "Join", "Payload"} -> 2
      [] type \in {"Finish", "Release", "PromisedAnswer_Op", "AnyPointer"} -> 0
      [] OTHER -> 1

\* NewMessage(seg), NewCall(seg), ...: a fresh struct of the type.
New(type) == NewStruct(type, DataSize(type), PointerCount(type))

\* NewRootMessage(seg): the root struct of a fresh message.
NewRootMessage == New("Message")

\* The struct types that carry a union, and the offset of its tag.
UnionTypes == {"Message", "Return", "Resolve", "CapDescriptor", "MessageTarget"}
\* The unions of a Disembargo (context) and of a Call (sendResultsTo) are
\* groups: their accessors work on the struct of the Disembargo or Call.
GroupUnionTypes == {"Disembargo", "Call"}
TagOffset(type) ==
    CASE type \in {"Return", "Call"} -> 6
      [] type \in {"Resolve", "MessageTarget", "Disembargo"} -> 4
      [] OTHER -> 0

\* One variant of a union.  tag: what its setter writes into the tag.
\* has: what its Has accessor compares the tag with (for a variant without
\* Has accessor, the constant of the variant).  kind: the payload is a
\* pointer in slot `off`, a uint32 or uint16 at byte `off`, or absent.
Variant(name, tag, has, kind, payload, off) ==
    [name |-> name, tag |-> tag, has |-> has, kind |-> kind,
     payload |-> payload, off |-> off]

Variants(type) ==
    CASE type = "Message" ->
           { Variant("unimplemented", 0, 0, "ptr", "Message", 0),
             Variant("abort", 1, 1, "ptr", "Exception", 0),
             Variant("bootstrap", 8, 8, "ptr", "Bootstrap", 0),
             Variant("call", 2, 2, "ptr", "Call", 0),
             Variant("return", 3, 3, "ptr", "Return", 0),
             Variant("finish", 4, 4, "ptr", "Finish", 0),
             Variant("resolve", 5, 5, "ptr", "Resolve", 0),
             Variant("release", 6, 6, "ptr", "Release", 0),
             Variant("disembargo", 13, 13, "ptr", "Disembargo", 0),
             Variant("obsoleteSave", 7, 7, "ptr", "AnyPointer", 0),
             Variant("obsoleteDelete", 9, 9, "ptr", "AnyPointer", 0),
             Variant("provide", 10, 10, "ptr", "Provide", 0),
             Variant("accept", 11, 11, "ptr", "Accept", 0),
             Variant("join", 12, 12, "ptr", "Join", 0) }
      [] type = "Return" ->
           { Variant("results", 0, 0, "ptr", "Payload", 0),
             Variant("exception", 1, 1, "ptr", "Exception", 0),
             Variant("canceled", 2, 2, "void", "none", 0),
             Variant("resultsSentElsewhere", 3, 3, "void", "none", 0),
             Variant("takeFromOtherQuestion", 4, 4, "data", "none", 8),
             Variant("acceptFromThirdParty", 5, 5, "ptr", "AnyPointer", 0) }
      [] type = "Resolve" ->
           { Variant("cap", 0, 0, "ptr", "CapDescriptor", 0),
             Variant("exception", 1, 1, "ptr", "Exception", 0) }
      [] type = "CapDescriptor" ->
           { Variant("none", 0, 0, "void", "none", 0),
             Variant("senderHosted", 1, 1, "data", "none", 4),
             Variant("senderPromise", 2, 2, "data", "none", 4),
             Variant("receiverHosted", 3, 3, "data", "none", 4),
             Variant("receiverAnswer", 4, 4, "ptr", "PromisedAnswer", 0),
             Variant("thirdPartyHosted", 5, 5, "ptr", "ThirdPartyCapDescriptor", 0) }
      [] type = "MessageTarget" ->
           { Variant("importedCap", 0, 0, "data", "none", 0),
             Variant("promisedAnswer", 1, 1, "ptr", "PromisedAnswer", 0) }
      [] type = "PromisedAnswer_Op" ->
           { Variant("noop", 0, 0, "void", "none", 0),
             Variant("getPointerField", 1, 1, "data16", "none", 2) }
      [] type = "Disembargo" ->
           { Variant("senderLoopback", 0, 0, "data", "none", 0),
             Variant("receiverLoopback", 1, 1, "data", "none", 0),
             Variant("accept", 2, 2, "void", "none", 0),
             Variant("provide", 3, 3, "data", "none", 0) }
      [] type = "Call" ->
           { Variant("caller", 0, 0, "void", "none", 0),
             Variant("yourself", 1, 1, "void", "none", 0),
             Variant("thirdParty", 2, 2, "ptr", "AnyPointer", 2) }
      [] OTHER -> {}

\* A Which that reads the first two bytes of every struct.
WhichAtZero(st) == Uint16(st, 0)

\* Which(): the tag of the union of a struct.
Which(st) == Uint16(st, TagOffset(st.type))

\* A Has accessor that looks at the pointer alone.
HasWithoutTagTest(st, v) ==
    v.kind = "ptr" /\ (IsValid(Ptr(st, v.off).p) \/ Ptr(st, v.off).err # nil)

\* Has<variant>(): false unless the tag is the variant's; then whether the
\* pointer is valid or cannot be read.  Only pointer variants have one.
Has(st, v) ==
    /\ v.kind = "ptr"
    /\ Uint16(st, TagOffset(st.type)) = v.has
    /\ IsValid(Ptr(st, v.off).p) \/ Ptr(st, v.off).err # nil

\* Return.ReleaseParamCaps() and Finish.ReleaseResultCaps().
ReleaseParamCaps(st) == ~Bit(st, 32)
ReleaseResultCaps(st) == ~Bit(st, 32)

\* A setter that stores the flag as it is given.
SetReleaseParamCapsPlain(st, v) == SetBit(st, 32, v)

\* Return.SetReleaseParamCaps(v) and Finish.SetReleaseResultCaps(v).
SetReleaseParamCaps(st, v) == SetBit(st, 32, ~v)
SetReleaseResultCaps(st, v) == SetBit(st, 32, ~v)

\* A SetMethodId that writes at the start of the data section.
SetMethodIdAtZero(st, v) == SetUint16(st, 0, v)

\* Call.SetMethodId(v), SetInterfaceId(v), SetAllowThirdPartyTailCall(v)
\* and their getters.
SetMethodId(st, v) == SetUint16(st, 4, v)
SetInterfaceId(st, v) == SetUint64(st, 8, v)
SetAllowThirdPartyTailCall(st, v) == SetBit(st, 128, v)
MethodId(st) == Uint16(st, 4)
InterfaceId(st) == Uint64(st, 8)
AllowThirdPartyTailCall(st) == Bit(st, 128)

\* Exception.Type() and Exception.SetType(v).
Type(st) == Uint16(st, 4)
SetType(st, v) == SetUint16(st, 4, v)

\* Exception_Type.String(): the name of the constant, "" for other values.
Exception_Type_String(c) ==
    CASE c = 0 -> "failed"
      [] c = 1 -> "overloaded"
      [] c = 2 -> "disconnected"
      [] c = 3 -> "unimplemented"
      [] OTHER -> ""

\* A FromString without the case of the last constant.
Exception_TypeFromStringThree(c) ==
    CASE c = "failed" -> 0
      [] c = "overloaded" -> 1
      [] c = "disconnected" -> 2
      [] OTHER -> 0

\* Exception_TypeFromString(c): the value with that name, 0 for any other
\* string.
Exception_TypeFromString(c) ==
    CASE c = "failed" -> 0
      [] c = "overloaded" -> 1
      [] c = "disconnected" -> 2
      [] c = "unimplemented" -> 3
      [] OTHER -> 0

\* The plain fields that the model lets the caller set: a uint32, uint16
\* or uint64 at byte `at`, a flag (stored inverted) or a bit at bit `at`,
\* a struct in pointer slot `at`, or a list of structs in slot `at`.
Field(name, kind, at, payload) ==
    [name |-> name, kind |-> kind, at |-> at, payload |-> payload]
Fields(type) ==
    CASE type = "Call" ->
           { Field("questionId", "uint32", 0, "none"),
             Field("methodId", "uint16", 4, "none"),
             Field("interfaceId", "uint64", 8, "none"),
             Field("allowThirdPartyTailCall", "bit", 128, "none"),
             Field("target", "struct", 0, "MessageTarget"),
             Field("params", "struct", 1, "Payload") }
      [] type = "Return" ->
           { Field("answerId", "uint32", 0, "none"),
             Field("releaseParamCaps", "flag", 32, "none") }
      [] type = "Finish" ->
           { Field("questionId", "uint32", 0, "none"),
             Field("releaseResultCaps", "flag", 32, "none") }
      [] type = "Release" ->
           { Field("id", "uint32", 0, "none"),
             Field("referenceCount", "uint32", 4, "none") }
      [] type = "Payload" -> { Field("capTable", "list", 1, "CapDescriptor") }
      [] type = "PromisedAnswer" ->
           { Field("questionId", "uint32", 0, "none"),
             Field("transform", "list", 0, "PromisedAnswer_Op") }
      [] OTHER -> {}

\* Ptr.Struct(): the struct a pointer leads to, the zero struct for any
\* other pointer; the getter gives it its generated type.
ZeroStruct(type) == [type |-> type, data |-> <<>>, ptrs |-> <<>>]
PtrStruct(p, type) ==
    IF p.kind = "struct" THEN [p.elems[1] EXCEPT !.type = type]
    ELSE ZeroStruct(type)

\* A getter that reports an absent struct as an error.
StructGetterStrict(st, slot, type) ==
    IF Ptr(st, slot).p.kind = "struct"
    THEN [val |-> PtrStruct(Ptr(st, slot).p, type), err |-> Ptr(st, slot).err]
    ELSE [val |-> ZeroStruct("none"), err |-> "errNull"]

\* A getter of a struct in pointer slot `slot`, such as Message.Call():
\* p, err := s.Struct.Ptr(slot); return Call{Struct: p.Struct()}, err.
StructGetter(st, slot, type) ==
    [val |-> PtrStruct(Ptr(st, slot).p, type), err |-> Ptr(st, slot).err]

\* HasTarget(), HasParams(): the Has accessor of a plain struct field.
HasField(st, f) == IsValid(Ptr(st, f.at).p) \/ Ptr(st, f.at).err # nil

\* The struct-typed getters of a type, as slot and type of the result.
StructGetters(type) ==
    { [slot |-> f.at, type |-> f.payload] :
        f \in { g \in Fields(type) : g.kind = "struct" } }
    \cup { [slot |-> v.off, type |-> v.payload] :
        v \in { w \in Variants(type) :
                  w.kind = "ptr" /\ w.payload # "AnyPointer" } }

\* The uint32 values the caller passes to the setters: one of a single byte
\* and one that spreads over three bytes (16r010203).
Uint32Inputs == {U32(0, 7), U32(1, 515)}
\* Those passed to the setters of a Release: zero and the largest among them.
Uint32InputsOf(type) ==
    IF type = "Release" THEN {U32(0, 0), U32(0, 5), MaxUint32} ELSE Uint32Inputs

\* The values the caller passes to SetMethodId and SetInterfaceId: one
\* with every bit set, and zero.
Uint16Inputs == {0, 65535}
Uint64Inputs == {U64(U32(0, 0), U32(0, 0)), U64(MaxUint32, MaxUint32)}

\* A getter that reads the low 16 bits only.
ReleaseReferenceCount16(st) == U32(0, Uint32(st, 4).lo)

\* Release.Id() and Release.ReferenceCount().
ReleaseId(st) == Uint32(st, 0)
ReleaseReferenceCount(st) == Uint32(st, 4)

----------------------------------------------------------------------------
(* The message under construction and the accessor calls on it *)

\* call: the accessor call that has written the tag and not yet the payload.
\* calls: the accessor calls made so far.  err: what the last call returned.
\* last: the setter of a plain field that the caller called last, with the
\* struct it was called on and its argument.
NoCall == [op |-> "none", path |-> <<>>, name |-> "none"]
NoLast == [path |-> <<>>, name |-> "none", val |-> "none"]
Last(path, name, val) == [path |-> path, name |-> name, val |-> val]
\* union: the union setter that the caller called last, with the struct it
\* was called on and what it was given (kind: "void", "data", "data16",
\* "ptr"; "pending" while the setter is between its two writes, and
\* "error" when it returned an error: both with the struct as it was when
\* the setter was called).
NoValue == [kind |-> "none"]
Value(kind, v) == [kind |-> kind, v |-> v]
NewEnv(root) ==
    [root |-> root, call |-> NoCall, calls |-> 0, err |-> nil, last |-> NoLast,
     union |-> Last(<<>>, "none", NoValue)]

\* The path p leads to a struct on the way to the struct at q.
IsPrefix(p, q) == Len(p) <= Len(q) /\ SubSeq(q, 1, Len(p)) = p

\* The record of the last union setter after a setter of a plain field was
\* called on the struct at `path`: a setter that installs a pointer ends
\* the life of the structs below that struct, and a setter called on a
\* struct below the union's changes the payload that the union setter
\* installed.
UnionAfter(u, path, replaces) ==
    IF replaces /\ IsPrefix(path, u.path) /\ Len(path) < Len(u.path)
    THEN Last(<<>>, "none", NoValue)
    ELSE IF IsPrefix(u.path, path) /\ Len(u.path) < Len(path)
              /\ u.val.kind \in {"ptr", "error"}
    THEN [u EXCEPT !.val = Value("changed", 0)]
    ELSE u

\* The structs of a message are reached from its root through pointers: a
\* path lists, for each step, the pointer slot and the element taken.
RECURSIVE Paths(_)
Paths(st) ==
    {<<>>} \cup
    UNION { UNION { { <<<<i, k>>>> \o q : q \in Paths(st.ptrs[i].elems[k]) }
                    : k \in DOMAIN st.ptrs[i].elems }
            : i \in DOMAIN st.ptrs }
RECURSIVE StructAt(_, _)
StructAt(st, path) ==
    IF path = <<>> THEN st
    ELSE StructAt(st.ptrs[path[1][1]].elems[path[1][2]], Tail(path))
RECURSIVE ReplaceAt(_, _, _)
ReplaceAt(st, path, new) ==
    IF path = <<>> THEN new
    ELSE [st EXCEPT !.ptrs[path[1][1]].elems[path[1][2]] =
                        ReplaceAt(@, Tail(path), new)]

\* The variant of a struct's union that has the given name.
VariantNamed(type, name) == CHOOSE v \in Variants(type) : v.name = name

\* The setters of a variant: Set<variant>, and New<variant> for a payload
\* of a struct type.
SettersOf(v) ==
    IF v.kind = "ptr" /\ v.payload # "AnyPointer" THEN {"Set", "New"} ELSE {"Set"}

\* A Return that the caller built beforehand: answer 7 with results whose
\* capability table has one entry, a senderHosted descriptor.
SampleCapDescriptor == SetUint32(SetUint16(New("CapDescriptor"), 0, 1), 4, U32(1, 515))
SamplePayload == SetPtr(New("Payload"), 1, ListPtr(<<SampleCapDescriptor>>))
SampleReturn ==
    SetPtr(SetUint32(New("Return"), 0, U32(0, 7)), 0, StructPtr(SamplePayload))

\* The structs the caller passes to Set<variant>(v): the zero struct, a
\* newly allocated one, or one built beforehand.
SetterArgs(type) ==
    {NoStruct, New(type)} \cup (IF type = "Return" THEN {SampleReturn} ELSE {})

\* The caller may use the message: it holds one from NewMessage and has
\* called neither send nor cancel, or it works on a message of its own.
MessageInUse == snd.pc = "msg" \/ snd.op = "none"

\* A setter that starts with the payload pointer.
FirstWritePayload(st, v) ==
    IF v.kind = "ptr" THEN SetPtr(st, v.off, StructPtr(New(v.payload)))
    ELSE SetUint16(st, TagOffset(st.type), v.tag)

\* The first statement of Set<variant> and New<variant>.
FirstWrite(st, v) == SetUint16(st, TagOffset(st.type), v.tag)

\* The first statement of a union setter: s.Struct.SetUint16(tagOffset, tag).
\* The setters of the variants without payload end here.
UnionSetTag ==
    /\ MessageInUse
    /\ env.call = NoCall
    /\ env.calls < MaxAccessorCalls
    /\ \E path \in Paths(env.root) :
         LET st == StructAt(env.root, path) IN
         \E v \in Variants(st.type) : \E op \in SettersOf(v) :
            env' = [env EXCEPT
                      !.root = ReplaceAt(@, path, FirstWrite(st, v)),
                      !.call = IF v.kind = "void" THEN NoCall
                               ELSE [op |-> op, path |-> path, name |-> v.name],
                      !.calls = @ + 1,
                      !.err = nil,
                      !.last = NoLast,
                      !.union = Last(path, v.name,
                                     IF v.kind = "void" THEN Value("void", 0)
                                     ELSE Value("pending", st))]
    /\ UNCHANGED <<rwc, s, conn, ops, snd, rcl, rcv, sr, dec>>

\* The rest of a union setter: SetUint32 for a data variant; for a pointer
\* variant SetPtr of the argument (Set) or of a newly allocated struct
\* (New), where the allocation and SetPtr can each fail and the setter
\* then returns the error.
UnionSetPayload ==
    /\ env.call.op \in {"Set", "New"}
    /\ LET path == env.call.path
           st   == StructAt(env.root, path)
           v    == VariantNamed(st.type, env.call.name)
       IN  IF v.kind = "data16"
           THEN \E val \in {0, 1} :
                  env' = [env EXCEPT
                            !.root = ReplaceAt(@, path, SetUint16(st, v.off, val)),
                            !.call = NoCall,
                            !.union.val = Value("data16", val)]
           ELSE IF v.kind = "data"
           THEN \E val \in Uint32Inputs :
                  env' = [env EXCEPT
                            !.root = ReplaceAt(@, path, SetUint32(st, v.off, val)),
                            !.call = NoCall,
                            !.union.val = Value("data", val)]
           ELSE IF env.call.op = "New"
           THEN \E r \in {"ok", "errAlloc", "errSetPtr"} :
                  env' = [env EXCEPT
                            !.root = IF r = "ok"
                                     THEN ReplaceAt(@, path,
                                             SetPtr(st, v.off, ToPtr(New(v.payload))))
                                     ELSE @,
                            !.call = NoCall,
                            !.err = IF r = "ok" THEN nil ELSE r,
                            !.union.val = IF r = "ok"
                                          THEN Value("ptr", ToPtr(New(v.payload)))
                                          ELSE Value("error", env.union.val.v)]
           ELSE \E arg \in SetterArgs(v.payload) :
                \E r \in {"ok", "errSetPtr"} :
                  env' = [env EXCEPT
                            !.root = IF r = "ok"
                                     THEN ReplaceAt(@, path,
                                             SetPtr(st, v.off, ToPtr(arg)))
                                     ELSE @,
                            !.call = NoCall,
                            !.err = IF r = "ok" THEN nil ELSE r,
                            !.union.val = IF r = "ok" THEN Value("ptr", ToPtr(arg))
                                          ELSE Value("error", env.union.val.v)]
    /\ UNCHANGED <<rwc, s, conn, ops, snd, rcl, rcv, sr, dec>>

\* A setter of a plain field: SetQuestionId(v), NewTarget(), NewCapTable(n).
FieldSet ==
    /\ MessageInUse
    /\ env.call = NoCall
    /\ env.calls < MaxAccessorCalls
    /\ \E path \in Paths(env.root) :
         LET st == StructAt(env.root, path) IN
         \E f \in Fields(st.type) :
            CASE f.kind = "uint32" ->
                   \E val \in Uint32InputsOf(st.type) :
                     env' = [env EXCEPT
                               !.root = ReplaceAt(@, path, SetUint32(st, f.at, val)),
                               !.calls = @ + 1, !.err = nil,
                               !.last = Last(path, f.name, val),
                               !.union = UnionAfter(@, path, FALSE)]
              [] f.kind = "flag" ->
                   \E val \in BOOLEAN :
                     env' = [env EXCEPT
                               !.root = ReplaceAt(@, path,
                                  IF f.name = "releaseParamCaps"
                                  THEN SetReleaseParamCaps(st, val)
                                  ELSE SetReleaseResultCaps(st, val)),
                               !.calls = @ + 1, !.err = nil,
                               !.last = Last(path, f.name, val),
                               !.union = UnionAfter(@, path, FALSE)]
              [] f.kind = "uint16" ->
                   \E val \in Uint16Inputs :
                     env' = [env EXCEPT
                               !.root = ReplaceAt(@, path, SetMethodId(st, val)),
                               !.calls = @ + 1, !.err = nil,
                               !.last = Last(path, f.name, val),
                               !.union = UnionAfter(@, path, FALSE)]
              [] f.kind = "uint64" ->
                   \E val \in Uint64Inputs :
                     env' = [env EXCEPT
                               !.root = ReplaceAt(@, path, SetInterfaceId(st, val)),
                               !.calls = @ + 1, !.err = nil,
                               !.last = Last(path, f.name, val),
                               !.union = UnionAfter(@, path, FALSE)]
              [] f.kind = "bit" ->
                   \E val \in BOOLEAN :
                     env' = [env EXCEPT
                               !.root = ReplaceAt(@, path,
                                           SetAllowThirdPartyTailCall(st, val)),
                               !.calls = @ + 1, !.err = nil,
                               !.last = Last(path, f.name, val),
                               !.union = UnionAfter(@, path, FALSE)]
              [] f.kind = "struct" ->
                   \E r \in {"ok", "errAlloc", "errSetPtr"} :
                     env' = [env EXCEPT
                               !.root = IF r = "ok"
                                        THEN ReplaceAt(@, path,
                                                SetPtr(st, f.at, ToPtr(New(f.payload))))
                                        ELSE @,
                               !.calls = @ + 1,
                               !.err = IF r = "ok" THEN nil ELSE r,
                               !.last = Last(path, f.name, r),
                               !.union = UnionAfter(@, path, TRUE)]
              [] f.kind = "list" ->
                   \E n \in 0..(IF f.name = "capTable" THEN MaxCapTable
                                 ELSE MaxTransform) :
                     env' = [env EXCEPT
                               !.root = ReplaceAt(@, path,
                                           SetPtr(st, f.at,
                                              ListPtr([k \in 1..n |-> New(f.payload)]))),
                               !.calls = @ + 1, !.err = nil,
                               !.last = Last(path, f.name, n),
                               !.union = UnionAfter(@, path, TRUE)]
    /\ UNCHANGED <<rwc, s, conn, ops, snd, rcl, rcv, sr, dec>>

\* The transform op getPointerField(k), built beforehand.
OpGetPointerField(k) ==
    SetUint16(SetUint16(New("PromisedAnswer_Op"), 0, 1), 2, k)

\* The structs the caller passes to Set(i, v) of a list.
ListSetArgs(type) ==
    IF type = "CapDescriptor" THEN {New(type), SampleCapDescriptor}
    ELSE {OpGetPointerField(0), OpGetPointerField(1)}

\* A Set that stores at the index after the one given.
ListSetNext(p, i, v) == ListSetStruct(p, i + 1, v)

\* CapDescriptor_List.Set(i, v) and PromisedAnswer_Op_List.Set(i, v).
ListSetAt(p, i, v) == ListSetStruct(p, i, v)

\* CapDescriptor_List.At(i) and PromisedAnswer_Op_List.At(i).
ListAt(p, i) == ListStruct(p, i)

\* The caller calls Set(i, v) on the list of a list field, with an index
\* inside the list or the first one outside.
ListSet ==
    /\ MessageInUse
    /\ env.call = NoCall
    /\ env.calls < MaxAccessorCalls
    /\ \E path \in Paths(env.root) :
         LET st == StructAt(env.root, path) IN
         \E f \in { g \in Fields(st.type) : g.kind = "list" } :
            LET l == Ptr(st, f.at).p IN
            /\ l.kind = "list"
            /\ \E i \in 0..ListLen(l) : \E v \in ListSetArgs(f.payload) :
                 LET r == ListSetAt(l, i, v) IN
                 env' = [env EXCEPT
                           !.root = ReplaceAt(@, path, SetPtr(st, f.at, r.p)),
                           !.calls = @ + 1,
                           !.err = r.err,
                           !.last = Last(path, "Set",
                                         [slot |-> f.at, i |-> i, v |-> v]),
                           !.union = UnionAfter(@, path, TRUE)]
    /\ UNCHANGED <<rwc, s, conn, ops, snd, rcl, rcv, sr, dec>>

----------------------------------------------------------------------------
(* The frame codec: capnp.Encoder and capnp.Decoder *)

RECURSIVE SumSeq(_)
SumSeq(q) == IF q = <<>> THEN 0 ELSE Head(q) + SumSeq(Tail(q))

\* The structs that the pointers of a pointer section lead to, in order.
RECURSIVE Elems(_)
Elems(ptrs) == IF ptrs = <<>> THEN <<>> ELSE Head(ptrs).elems \o Elems(Tail(ptrs))

\* The number of objects a struct and all that it points to take up.
RECURSIVE Size(_)
Size(st) == 1 + SumSeq([k \in DOMAIN Elems(st.ptrs) |-> Size(Elems(st.ptrs)[k])])

\* The segment of a message: the root object first, every object followed
\* by the objects its pointers lead to; a pointer is stored as the offset
\* from its object to its target and the number of elements there.
RECURSIVE Flatten(_)
RECURSIVE FlattenAll(_)
Flatten(st) ==
    LET under(i) == SumSeq([k \in DOMAIN st.ptrs[i].elems |->
                               Size(st.ptrs[i].elems[k])])
        before(i) == SumSeq([j \in 1..(i - 1) |-> under(j)])
        cell(i) == IF st.ptrs[i].kind = "null"
                   THEN [kind |-> "null", off |-> 0, count |-> 0]
                   ELSE [kind |-> st.ptrs[i].kind, off |-> 1 + before(i),
                         count |-> Len(st.ptrs[i].elems)]
    IN  <<[data |-> st.data, ptrs |-> [i \in DOMAIN st.ptrs |-> cell(i)]]>>
        \o FlattenAll(Elems(st.ptrs))
FlattenAll(sts) ==
    IF sts = <<>> THEN <<>> ELSE Flatten(Head(sts)) \o FlattenAll(Tail(sts))

\* Encoder.Encode(msg): the frame as the Writes put it on the stream, the
\* header (segment count, segment size) and then the segment.
Encode(root) == << <<1, Len(Flatten(root))>>, Flatten(root) >>

\* The objects that a struct at `pos` of a segment takes up, and those that
\* n structs in a row take up.
RECURSIVE SizeAt(_, _)
RECURSIVE Span(_, _, _)
SizeAt(seg, pos) ==
    1 + Span(seg, pos + 1,
             SumSeq([i \in DOMAIN seg[pos].ptrs |-> seg[pos].ptrs[i].count]))
Span(seg, pos, n) ==
    IF n = 0 THEN 0
    ELSE SizeAt(seg, pos) + Span(seg, pos + SizeAt(seg, pos), n - 1)

\* The struct read from `pos` of a segment, following the pointer offsets.
\* The wire does not say of which generated type a struct is.
RECURSIVE Unflatten(_, _)
Unflatten(seg, pos) ==
    [type |-> "any",
     data |-> seg[pos].data,
     ptrs |-> [i \in DOMAIN seg[pos].ptrs |->
                 LET c == seg[pos].ptrs[i] IN
                 IF c.kind = "null" THEN NullPtr
                 ELSE [kind |-> c.kind,
                       elems |-> [k \in 1..c.count |->
                                    Unflatten(seg, pos + c.off
                                                + Span(seg, pos + c.off, k - 1))]]]]

\* Decoder.Decode(): the message of a frame, or an error when the segment
\* is not of the size the header gives.
Decode(header, seg) ==
    IF header[1] = 1 /\ header[2] = Len(seg) /\ Len(seg) > 0
    THEN [msg |-> [root |-> StructPtr(Unflatten(seg, 1))], err |-> nil]
    ELSE [msg |-> [root |-> NullPtr], err |-> "errDecode"]

\* A struct without the names of the generated types.
RECURSIVE Erase(_)
Erase(st) ==
    [type |-> "any",
     data |-> st.data,
     ptrs |-> [i \in DOMAIN st.ptrs |->
                 [kind |-> st.ptrs[i].kind,
                  elems |-> [k \in DOMAIN st.ptrs[i].elems |->
                               Erase(st.ptrs[i].elems[k])]]]]

\* A root accessor that returns a newly allocated Message.
RootStructEmpty(msg) == New("Message")

\* Message{root.Struct()} in ReadRootMessage: the struct that the root
\* pointer of a decoded message leads to, as a Message.
RootStruct(msg) ==
    IF msg.root.kind = "struct"
    THEN [msg.root.elems[1] EXCEPT !.type = "Message"]
    ELSE NoStruct

----------------------------------------------------------------------------
(* The transport *)

\* Every combination of optional interfaces an io.ReadWriteCloser can have.
Streams == [SetWriteDeadline : BOOLEAN, CloseRead : BOOLEAN, CloseWrite : BOOLEAN]

\* The deadlines a context can carry; "none" is a context without deadline.
Deadlines == {"none", "d1", "d2"}
ZeroTime == "zero"

\* A NewStreamTransport that gives every stream the signal receiver.
NewStreamTransportSignalOnly(stream) ==
    [ deadline |-> stream.SetWriteDeadline,
      cw       |-> stream.CloseWrite,
      recv     |-> "signalReceiver",
      mu       |-> "unlocked",
      closes   |-> 0 ]

\* NewStreamTransport: probe the optional interfaces, pick the receiver.
NewStreamTransport(stream) ==
    [ deadline |-> stream.SetWriteDeadline,
      cw       |-> stream.CloseWrite,
      recv     |-> IF stream.CloseRead THEN "closerReceiver" ELSE "signalReceiver",
      mu       |-> "unlocked",
      closes   |-> 0 ]

\* A CloseSend that tests the receive bit instead of the send bit.
SendBitOfRecv(c) == (c \div 2) % 2
\* A CloseSend that assigns the mask instead of or-ing into it.
OrSendAssign(c) == 1
\* A CloseRecv that tests the send bit instead of the receive bit.
RecvBitOfSend(c) == c % 2

\* closes & 1, closes & 2, closes |= 1, closes |= 2 on the uint8 mask.
SendBit(c) == c % 2
RecvBit(c) == (c \div 2) % 2
OrSend(c) == IF c % 2 = 1 THEN c ELSE c + 1
\* A CloseRecv that sets both bits.
OrRecvBoth(c) == 3
OrRecv(c) == IF (c \div 2) % 2 = 1 THEN c ELSE c + 2

\* A done that is true as soon as either half is closed.
BothClosedEither(c) == c # 0

\* done := s.closes == 3
BothClosed(c) == c = 3

\* A CloseSend that forgets werr once it has called Close.
CloseSendResultDropsWerr(werr, cerr) == cerr

\* The tail of CloseSend once Close was called: which error it returns.
CloseSendResult(werr, cerr) ==
    IF cerr # nil THEN cerr
    ELSE IF werr # nil THEN werr
    ELSE nil

\* The tail of CloseRecv once Close was called: which error it returns.
CloseRecvResult(rerr, cerr) ==
    IF cerr # nil THEN cerr
    ELSE IF rerr # nil THEN rerr
    ELSE nil

\* A close call that keeps s.mu until it returns.
UnlockDeferred(t) == t

\* s.mu.Unlock()
Unlock(t) == [t EXCEPT !.mu = "unlocked"]

\* A closerReceiver.CloseRecv that returns without calling CloseRead.
CloseReadSkipped(c) == c

\* cr.closer.CloseRead(): the read side of the stream is shut.
CloseRead(c) == [c EXCEPT !.readClosed = TRUE]

\* s.cw.CloseWrite(): the write side of the stream is shut.
CloseWrite(c) == [c EXCEPT !.writeClosed = TRUE]

\* Close on the stream ends both directions.
StreamClosed(c) == [c EXCEPT !.closed = TRUE, !.readClosed = TRUE, !.writeClosed = TRUE]

\* A signalReceiver.CloseRecv that closes the stream to end the Decode.
SignalReceiverClosesStream(c) == StreamClosed(c)

\* signalReceiver.CloseRecv closes sr.close: what it does to the stream.
SignalReceiverCloseRecv(c) == c

\* A close primitive of the stream was called by the call `by`, which had
\* left the mask at `mask` when it unlocked s.mu.
StreamOp(name, by, mask) == [op |-> name, by |-> by, closes |-> mask]

\* The number of calls of a caller that have returned: all it began, less
\* the one that is running or that panicked.
Returned(begun, pc) == IF pc = "idle" THEN begun ELSE begun - 1

NoCtx == [deadline |-> "none", canceled |-> FALSE]
\* rcl.other: a second goroutine that calls CloseRecv at the same time.
\* pc, op, ret: where the caller is, its current or last call, what that
\* call returned.  done, werr, rerr, cerr: the locals of the close calls.
\* before, after: s.closes when the call locked and when it unlocked s.mu.
\* prims: the stream primitives the call has invoked.  since: how many
\* close calls of the other side had returned when the call began.
InitSnd == [pc |-> "idle", op |-> "none", ret |-> "none", done |-> FALSE,
            werr |-> nil, cerr |-> nil, before |-> 0, after |-> 0,
            prims |-> {}, since |-> 0, closeSends |-> 0,
            ctx |-> NoCtx, newMessages |-> 0, writes |-> 0]
InitRcl == [pc |-> "idle", op |-> "none", ret |-> "none", done |-> FALSE,
            rerr |-> nil, cerr |-> nil, before |-> 0, after |-> 0,
            prims |-> {}, since |-> 0, closeRecvs |-> 0,
            other |-> [pc |-> "idle", ret |-> "none", done |-> FALSE,
                       rerr |-> nil, after |-> 0, closeRecvs |-> 0]]
NoMessage == [id |-> 0, root |-> "none"]
\* msg, err: what the last RecvMessage returned.  task: the Decode call it
\* started (0: none).  since: how many CloseRecv calls had returned when it
\* began.  got: the frames returned so far, in order.  ctx: whether the
\* Done channel of the call's ctx is closed, by cancelation or by deadline.
InitRcv == [pc |-> "idle", msg |-> NoMessage, err |-> "none", recvs |-> 0,
            task |-> 0, since |-> 0, got |-> <<>>, ctx |-> "live"]
InitConn == [writeDeadline |-> "unset", readClosed |-> FALSE,
             writeClosed |-> FALSE, closed |-> FALSE, in |-> <<>>,
             out |-> <<>>, peerChunks |-> 0, peerGone |-> FALSE,
             peerSent |-> <<>>, peerRead |-> 0,
             peerMsg |-> [msg |-> NoStruct, err |-> nil]]

Init ==
    /\ rwc \in Streams
    /\ s = NewStreamTransport(rwc)
    /\ conn = InitConn
    /\ ops = <<>>
    /\ snd = InitSnd
    /\ rcl = InitRcl
    /\ rcv = InitRcv
    /\ sr = [close |-> FALSE]
    /\ dec = <<>>
    /\ env = NewEnv(NoStruct)

----------------------------------------------------------------------------
(* CloseSend *)

\* The caller invokes CloseSend; the call waits for s.mu.
CloseSendCall ==
    /\ snd.pc = "idle"
    /\ snd.closeSends < MaxCloseSend
    /\ snd' = [snd EXCEPT !.pc = "cs_lock", !.op = "CloseSend", !.ret = "none",
                          !.done = FALSE, !.werr = nil, !.cerr = nil,
                          !.before = 0, !.after = 0, !.prims = {},
                          !.since = Returned(rcl.closeRecvs, rcl.pc),
                          !.closeSends = @ + 1, !.ctx = NoCtx, !.writes = 0]
    /\ UNCHANGED <<env, rwc, s, conn, ops, rcl, rcv, sr, dec>>

\* s.mu.Lock()
CloseSendLock ==
    /\ snd.pc = "cs_lock"
    /\ s.mu = "unlocked"
    /\ s' = [s EXCEPT !.mu = "CloseSend"]
    /\ snd' = [snd EXCEPT !.pc = "cs_mask"]
    /\ UNCHANGED <<env, rwc, conn, ops, rcl, rcv, sr, dec>>

\* The critical section: reject a repeated call, else set bit 0; unlock.
CloseSendMask ==
    /\ snd.pc = "cs_mask"
    /\ IF SendBit(s.closes) = 1
       THEN /\ s' = Unlock(s)
            /\ snd' = [snd EXCEPT !.pc = "idle", !.ret = "errSendClosed",
                                  !.before = s.closes, !.after = s.closes]
       ELSE /\ s' = Unlock([s EXCEPT !.closes = OrSend(@)])
            /\ snd' = [snd EXCEPT !.pc = "cs_half",
                                  !.before = s.closes, !.after = OrSend(s.closes),
                                  !.done = BothClosed(OrSend(s.closes))]
    /\ UNCHANGED <<env, rwc, conn, ops, rcl, rcv, sr, dec>>

\* werr := s.cw.CloseWrite(): a call on a nil interface when the stream has
\* no CloseWrite, which panics.  if !done { return werr }
CloseSendHalf ==
    /\ snd.pc = "cs_half"
    /\ IF s.cw
       THEN \E e \in {nil, "errCloseWrite"} :
              /\ ops' = Append(ops, StreamOp("CloseWrite", "CloseSend", snd.after))
              /\ conn' = CloseWrite(conn)
              /\ snd' = IF snd.done
                        THEN [snd EXCEPT !.pc = "cs_close", !.werr = e,
                                         !.prims = @ \cup {"CloseWrite"}]
                        ELSE [snd EXCEPT !.pc = "idle", !.werr = e, !.ret = e,
                                         !.prims = @ \cup {"CloseWrite"}]
       ELSE /\ snd' = [snd EXCEPT !.pc = "panic", !.ret = "panic"]
            /\ ops' = ops
            /\ conn' = conn
    /\ UNCHANGED <<env, rwc, s, rcl, rcv, sr, dec>>

\* cerr := s.c.Close() and the returns after it.
CloseSendClose ==
    /\ snd.pc = "cs_close"
    /\ \E e \in {nil, "errClose"} :
         /\ ops' = Append(ops, StreamOp("Close", "CloseSend", snd.after))
         /\ snd' = [snd EXCEPT !.pc = "idle", !.cerr = e,
                               !.prims = @ \cup {"Close"},
                               !.ret = CloseSendResult(snd.werr, e)]
    /\ conn' = StreamClosed(conn)
    /\ UNCHANGED <<env, rwc, s, rcl, rcv, sr, dec>>

----------------------------------------------------------------------------
(* CloseRecv *)

CloseRecvCall ==
    /\ rcl.pc = "idle"
    /\ rcl.closeRecvs < MaxCloseRecv
    /\ rcl' = [rcl EXCEPT !.pc = "cr_lock", !.op = "CloseRecv", !.ret = "none",
                          !.done = FALSE, !.rerr = nil, !.cerr = nil,
                          !.before = 0, !.after = 0, !.prims = {},
                          !.since = IF snd.op = "CloseSend"
                                    THEN Returned(snd.closeSends, snd.pc)
                                    ELSE snd.closeSends,
                          !.closeRecvs = @ + 1]
    /\ UNCHANGED <<env, rwc, s, conn, ops, snd, rcv, sr, dec>>

CloseRecvLock ==
    /\ rcl.pc = "cr_lock"
    /\ s.mu = "unlocked"
    /\ s' = [s EXCEPT !.mu = "CloseRecv"]
    /\ rcl' = [rcl EXCEPT !.pc = "cr_mask"]
    /\ UNCHANGED <<env, rwc, conn, ops, snd, rcv, sr, dec>>

CloseRecvMask ==
    /\ rcl.pc = "cr_mask"
    /\ IF RecvBit(s.closes) = 1
       THEN /\ s' = Unlock(s)
            /\ rcl' = [rcl EXCEPT !.pc = "idle", !.ret = "errRecvClosed",
                                  !.before = s.closes, !.after = s.closes]
       ELSE /\ s' = Unlock([s EXCEPT !.closes = OrRecv(@)])
            /\ rcl' = [rcl EXCEPT !.pc = "cr_half",
                                  !.before = s.closes, !.after = OrRecv(s.closes),
                                  !.done = BothClosed(OrRecv(s.closes))]
    /\ UNCHANGED <<env, rwc, conn, ops, snd, rcv, sr, dec>>

\* rerr := s.recv.CloseRecv(): closerReceiver calls CloseRead on the stream;
\* signalReceiver closes the channel sr.close (closing it twice panics) and
\* returns nil.  if !done { return rerr }
CloseRecvHalf ==
    /\ rcl.pc = "cr_half"
    /\ IF s.recv = "closerReceiver"
       THEN \E e \in {nil, "errCloseRead"} :
              /\ ops' = Append(ops, StreamOp("CloseRead", "CloseRecv", rcl.after))
              /\ conn' = CloseRead(conn)
              /\ sr' = sr
              /\ rcl' = IF rcl.done
                        THEN [rcl EXCEPT !.pc = "cr_close", !.rerr = e,
                                         !.prims = @ \cup {"CloseRead"}]
                        ELSE [rcl EXCEPT !.pc = "idle", !.rerr = e, !.ret = e,
                                         !.prims = @ \cup {"CloseRead"}]
       ELSE /\ ops' = ops
            /\ conn' = SignalReceiverCloseRecv(conn)
            /\ IF sr.close
               THEN /\ sr' = sr
                    /\ rcl' = [rcl EXCEPT !.pc = "panic", !.ret = "panic"]
               ELSE /\ sr' = [sr EXCEPT !.close = TRUE]
                    /\ rcl' = IF rcl.done
                              THEN [rcl EXCEPT !.pc = "cr_close"]
                              ELSE [rcl EXCEPT !.pc = "idle", !.ret = nil]
    /\ UNCHANGED <<env, rwc, s, snd, rcv, dec>>

CloseRecvClose ==
    /\ rcl.pc = "cr_close"
    /\ \E e \in {nil, "errClose"} :
         /\ ops' = Append(ops, StreamOp("Close", "CloseRecv", rcl.after))
         /\ rcl' = [rcl EXCEPT !.pc = "idle", !.cerr = e,
                               !.prims = @ \cup {"Close"},
                               !.ret = CloseRecvResult(rcl.rerr, e)]
    /\ conn' = StreamClosed(conn)
    /\ UNCHANGED <<env, rwc, s, snd, rcv, sr, dec>>

----------------------------------------------------------------------------
(* CloseRecv, called from a second goroutine at the same time *)

OtherCloseRecvCall ==
    /\ rcl.other.pc = "idle"
    /\ rcl.other.closeRecvs < MaxCloseRecv
    /\ rcl' = [rcl EXCEPT !.other = [@ EXCEPT !.pc = "cr_lock", !.ret = "none",
                                              !.done = FALSE, !.rerr = nil,
                                              !.closeRecvs = @ + 1]]
    /\ UNCHANGED <<env, rwc, s, conn, ops, snd, rcv, sr, dec>>

OtherCloseRecvLock ==
    /\ rcl.other.pc = "cr_lock"
    /\ s.mu = "unlocked"
    /\ s' = [s EXCEPT !.mu = "CloseRecv"]
    /\ rcl' = [rcl EXCEPT !.other.pc = "cr_mask"]
    /\ UNCHANGED <<env, rwc, conn, ops, snd, rcv, sr, dec>>

OtherCloseRecvMask ==
    /\ rcl.other.pc = "cr_mask"
    /\ IF RecvBit(s.closes) = 1
       THEN /\ s' = Unlock(s)
            /\ rcl' = [rcl EXCEPT !.other.pc = "idle",
                                  !.other.ret = "errRecvClosed",
                                  !.other.after = s.closes]
       ELSE /\ s' = Unlock([s EXCEPT !.closes = OrRecv(@)])
            /\ rcl' = [rcl EXCEPT !.other.pc = "cr_half",
                                  !.other.after = OrRecv(s.closes),
                                  !.other.done = BothClosed(OrRecv(s.closes))]
    /\ UNCHANGED <<env, rwc, conn, ops, snd, rcv, sr, dec>>

OtherCloseRecvHalf ==
    /\ rcl.other.pc = "cr_half"
    /\ IF s.recv = "closerReceiver"
       THEN \E e \in {nil, "errCloseRead"} :
              /\ ops' = Append(ops, StreamOp("CloseRead", "CloseRecv", rcl.other.after))
              /\ conn' = CloseRead(conn)
              /\ sr' = sr
              /\ rcl' = IF rcl.other.done
                        THEN [rcl EXCEPT !.other.pc = "cr_close",
                                         !.other.rerr = e]
                        ELSE [rcl EXCEPT !.other.pc = "idle",
                                         !.other.rerr = e, !.other.ret = e]
       ELSE /\ ops' = ops
            /\ conn' = SignalReceiverCloseRecv(conn)
            /\ IF sr.close
               THEN /\ sr' = sr
                    /\ rcl' = [rcl EXCEPT !.other.pc = "panic",
                                          !.other.ret = "panic"]
               ELSE /\ sr' = [sr EXCEPT !.close = TRUE]
                    /\ rcl' = IF rcl.other.done
                              THEN [rcl EXCEPT !.other.pc = "cr_close"]
                              ELSE [rcl EXCEPT !.other.pc = "idle",
                                               !.other.ret = nil]
    /\ UNCHANGED <<env, rwc, s, snd, rcv, dec>>

OtherCloseRecvClose ==
    /\ rcl.other.pc = "cr_close"
    /\ \E e \in {nil, "errClose"} :
         /\ ops' = Append(ops, StreamOp("Close", "CloseRecv", rcl.other.after))
         /\ rcl' = [rcl EXCEPT !.other.pc = "idle",
                               !.other.ret = CloseRecvResult(rcl.other.rerr, e)]
    /\ conn' = StreamClosed(conn)
    /\ UNCHANGED <<env, rwc, s, snd, rcv, sr, dec>>

----------------------------------------------------------------------------
(* NewMessage, send, cancel *)

\* The chunk of frame `id` that the k-th Write of Encode puts on the stream.
FrameParts == 2
Chunk(id, k, root) == [id |-> id, part |-> k, root |-> root]

\* The contexts a caller passes to NewMessage.
Contexts == [deadline : Deadlines, canceled : BOOLEAN]

\* A send that leaves the stream's deadline alone when ctx has none.
SendDeadlineNotCleared(ctx) ==
    IF ctx.deadline # "none" THEN ctx.deadline ELSE conn.writeDeadline

\* The deadline send hands to SetWriteDeadline: ctx.Deadline() or time.Time{}.
SendDeadline(ctx) == IF ctx.deadline # "none" THEN ctx.deadline ELSE ZeroTime

\* NewMessage allocates the message and returns (rmsg, send, cancel, nil).
NewMessageCall ==
    /\ snd.pc = "idle"
    /\ env.call = NoCall
    /\ snd.newMessages < MaxNewMessage
    /\ \E ctx \in Contexts :
         snd' = [snd EXCEPT !.pc = "msg", !.op = "NewMessage", !.ret = nil,
                            !.ctx = ctx, !.newMessages = @ + 1, !.writes = 0,
                            !.prims = {}, !.done = FALSE, !.werr = nil,
                            !.cerr = nil, !.before = 0, !.after = 0,
                            !.since = 0]
    /\ env' = [NewEnv(NewRootMessage) EXCEPT !.calls = env.calls]
    /\ UNCHANGED <<rwc, s, conn, ops, rcl, rcv, sr, dec>>

\* A cancel that puts the header of the abandoned frame on the stream.
cancelWritesHeader(c) ==
    [c EXCEPT !.out = Append(@, [chunk |-> Chunk(snd.newMessages, 1, "ok"),
                                 deadline |-> c.writeDeadline, ctx |-> snd.ctx,
                                 bytes |-> Encode(env.root)[1],
                                 built |-> env.root])]

\* cancel = func() {}: what the call does to the stream.
cancel(c) == c

\* The caller invokes cancel.
CancelCall ==
    /\ snd.pc = "msg"
    /\ env.call = NoCall
    /\ snd' = [snd EXCEPT !.pc = "idle", !.op = "cancel", !.ret = "none",
                          !.ctx = NoCtx]
    /\ conn' = cancel(conn)
    /\ UNCHANGED <<env, rwc, s, ops, rcl, rcv, sr, dec>>

\* A send that takes every stream to have SetWriteDeadline.
DeadlineAssumed(t) == TRUE

\* if s.deadline != nil
DeadlineNotNil(t) == t.deadline

\* The caller invokes send.
SendCall ==
    /\ snd.pc = "msg"
    /\ env.call = NoCall
    /\ snd' = [snd EXCEPT !.pc = IF DeadlineNotNil(s) THEN "send_deadline" ELSE "encode",
                          !.op = "send", !.ret = "none"]
    /\ UNCHANGED <<env, rwc, s, conn, ops, rcl, rcv, sr, dec>>

\* SetWriteDeadline(d) on the stream: a closed stream refuses it.
SetWriteDeadline(c, d) == IF c.closed THEN c ELSE [c EXCEPT !.writeDeadline = d]

\* s.deadline.SetWriteDeadline(...); its error is dropped.
SendSetDeadline ==
    /\ snd.pc = "send_deadline"
    /\ conn' = SetWriteDeadline(conn, SendDeadline(snd.ctx))
    /\ snd' = [snd EXCEPT !.pc = "encode", !.prims = @ \cup {"SetWriteDeadline"}]
    /\ UNCHANGED <<env, rwc, s, ops, rcl, rcv, sr, dec>>

\* One Write of s.enc.Encode(msg) succeeds: the header, then the segment.
\* msg is the message that this NewMessage allocated and the caller filled;
\* `built` keeps it next to the bytes for the properties.
EncodeWrite ==
    /\ snd.pc = "encode"
    /\ ~conn.writeClosed
    /\ conn' = [conn EXCEPT !.out = Append(@,
                   [chunk |-> Chunk(snd.newMessages, snd.writes + 1, "ok"),
                    deadline |-> conn.writeDeadline, ctx |-> snd.ctx,
                    bytes |-> Encode(env.root)[snd.writes + 1],
                    built |-> env.root])]
    /\ snd' = IF snd.writes + 1 = FrameParts
              THEN [snd EXCEPT !.pc = "idle", !.writes = @ + 1, !.ret = nil,
                               !.prims = @ \cup {"Write"}]
              ELSE [snd EXCEPT !.writes = @ + 1, !.prims = @ \cup {"Write"}]
    /\ UNCHANGED <<env, rwc, s, ops, rcl, rcv, sr, dec>>

\* One Write of Encode fails, and send returns the stream's error.
EncodeFail ==
    /\ snd.pc = "encode"
    /\ snd' = [snd EXCEPT !.pc = "idle", !.ret = "errWrite",
                          !.prims = @ \cup {"Write"}]
    /\ UNCHANGED <<env, rwc, s, conn, ops, rcl, rcv, sr, dec>>

----------------------------------------------------------------------------
(* The peer and the decoder *)

\* NewMessage with context.Background().
NewMessageBackground ==
    /\ NewMessageCall
    /\ snd'.ctx = [deadline |-> "none", canceled |-> FALSE]

\* RecvMessage on the peer's transport, on a stream that carried whole
\* frames: Decode reads the header and the segment of the next frame, and
\* ReadRootMessage gives its root.
PeerRecvMessage ==
    /\ Len(conn.out) >= (conn.peerRead + 1) * FrameParts
    /\ LET at == conn.peerRead * FrameParts
           d  == Decode(conn.out[at + 1].bytes, conn.out[at + 2].bytes)
       IN  conn' = [conn EXCEPT
                      !.peerRead = @ + 1,
                      !.peerMsg = IF d.err # nil
                                  THEN [msg |-> NoStruct, err |-> d.err]
                                  ELSE [msg |-> RootStruct(d.msg),
                                        err |-> nil]]
    /\ UNCHANGED <<env, rwc, s, ops, snd, rcl, rcv, sr, dec>>

\* The peer writes the next chunk of its next frame to the stream; what
\* arrives after the read side was shut is dropped.  A frame that a send
\* of the peer wrote has a root struct; peerSent lists those frames once
\* their last chunk is written.  A frame of some other origin may lack it.
PeerWrite ==
    /\ ~conn.peerGone
    /\ conn.peerChunks < MaxFrames * FrameParts
    /\ \E root \in {"ok", "bad"} :
         LET id   == (conn.peerChunks \div FrameParts) + 1
             part == (conn.peerChunks % FrameParts) + 1
             r    == IF part < FrameParts THEN "ok" ELSE root
         IN  conn' = [conn EXCEPT
                        !.in = IF conn.readClosed THEN @
                               ELSE Append(@, Chunk(id, part, r)),
                        !.peerChunks = @ + 1,
                        !.peerSent = IF part = FrameParts /\ r = "ok"
                                     THEN Append(@, id) ELSE @]
    /\ UNCHANGED <<env, rwc, s, ops, snd, rcl, rcv, sr, dec>>

\* The peer closes its end: reads reach the end of the stream.
PeerClose ==
    /\ ~conn.peerGone
    /\ conn' = [conn EXCEPT !.peerGone = TRUE]
    /\ UNCHANGED <<env, rwc, s, ops, snd, rcl, rcv, sr, dec>>

\* A Decode call just started: it has read no part of a frame yet.
NewDecode == [part |-> 0, done |-> FALSE, msg |-> NoMessage, err |-> nil]

\* Decode's Read returns the chunk at the head of the stream.
DecodeRead(i) ==
    /\ i \in 1..Len(dec)
    /\ ~dec[i].done
    /\ ~conn.closed
    /\ conn.in # <<>>
    /\ LET c == Head(conn.in) IN
         dec' = [dec EXCEPT ![i] =
                   IF c.part # dec[i].part + 1
                   THEN [@ EXCEPT !.done = TRUE, !.err = "errMalformed"]
                   ELSE IF c.part = FrameParts
                   THEN [@ EXCEPT !.done = TRUE, !.part = c.part,
                                  !.msg = [id |-> c.id, root |-> c.root]]
                   ELSE [@ EXCEPT !.part = c.part,
                                  !.msg = [id |-> c.id, root |-> "partial"]]]
    /\ conn' = [conn EXCEPT !.in = Tail(@)]
    /\ UNCHANGED <<env, rwc, s, ops, snd, rcl, rcv, sr>>

\* Decode's Read fails: the stream is closed, or nothing is left to read
\* and the read side was shut or the peer is gone.
DecodeFail(i) ==
    /\ i \in 1..Len(dec)
    /\ ~dec[i].done
    /\ \/ conn.closed
       \/ (conn.readClosed \/ conn.peerGone) /\ conn.in = <<>>
    /\ dec' = [dec EXCEPT ![i] = [@ EXCEPT !.done = TRUE, !.err = "errRead"]]
    /\ UNCHANGED <<env, rwc, s, conn, ops, snd, rcl, rcv, sr>>

----------------------------------------------------------------------------
(* RecvMessage *)

\* ReadRootMessage: the root struct of the message, or an error with the
\* empty struct.
ReadRootMessage(msg) ==
    IF msg.root = "ok" THEN [msg |-> msg, err |-> nil]
    ELSE [msg |-> NoMessage, err |-> "errRoot"]

\* A RecvMessage that hands out what Decode had read when it failed.
RecvResultKeepsMsg(d) ==
    IF d.err # nil THEN [msg |-> d.msg, err |-> d.err]
    ELSE ReadRootMessage(d.msg)

\* What RecvMessage returns once its Decode call d has ended.
RecvResult(d) ==
    IF d.err # nil THEN [msg |-> NoMessage, err |-> d.err]
    ELSE ReadRootMessage(d.msg)

\* A RecvMessage that takes its result from the Decode call before its own.
DecodeTaskOfLastCall(d) == IF Len(d) > 0 THEN Len(d) ELSE 1

\* msg, err := dec.Decode(): each RecvMessage makes a Decode call of its
\* own and returns what that call returns.
DecodeTask(d) == Len(d) + 1

\* A first select that never finds sr.close closed.
ReceiverClosedIgnored == FALSE

\* The first select of signalReceiver.RecvMessage: is sr.close closed.
ReceiverClosed == sr.close

\* StreamTransport.RecvMessage hands the call to s.recv.  closerReceiver
\* calls Decode itself; signalReceiver returns at once when sr.close is
\* closed, else it starts Decode in a goroutine of its own and selects.
RecvMessageCall ==
    /\ rcv.pc = "idle"
    /\ rcv.recvs < MaxRecvMessage
    /\ IF s.recv = "signalReceiver" /\ ReceiverClosed
       THEN /\ rcv' = [rcv EXCEPT !.recvs = @ + 1, !.msg = NoMessage,
                                  !.err = "errRecvOnClosed", !.task = 0,
                                  !.since = Returned(rcl.closeRecvs, rcl.pc),
                                  !.ctx = "live"]
            /\ dec' = dec
       ELSE /\ rcv' = [rcv EXCEPT !.recvs = @ + 1, !.msg = NoMessage,
                                  !.err = "none", !.task = DecodeTask(dec),
                                  !.since = Returned(rcl.closeRecvs, rcl.pc),
                                  !.ctx = "live",
                                  !.pc = IF s.recv = "closerReceiver"
                                         THEN "decode" ELSE "select"]
            /\ dec' = Append(dec, NewDecode)
    /\ UNCHANGED <<env, rwc, s, conn, ops, snd, rcl, sr>>

\* The ctx of the running RecvMessage is canceled, or its deadline passes;
\* it may have been so since before the call.
RecvCtxDone ==
    /\ rcv.pc \in {"decode", "select"}
    /\ rcv.ctx = "live"
    /\ rcv' = [rcv EXCEPT !.ctx = "done"]
    /\ UNCHANGED <<env, rwc, s, conn, ops, snd, rcl, sr, dec>>

\* Decode has returned (closerReceiver), or the channel read is closed
\* (signalReceiver): RecvMessage returns the message or the error.
RecvMessageReturn ==
    /\ rcv.pc \in {"decode", "select"}
    /\ dec[rcv.task].done
    /\ LET r == RecvResult(dec[rcv.task]) IN
         rcv' = [rcv EXCEPT !.pc = "idle", !.msg = r.msg, !.err = r.err,
                            !.got = IF r.err = nil THEN Append(@, r.msg.id) ELSE @]
    /\ UNCHANGED <<env, rwc, s, conn, ops, snd, rcl, sr, dec>>

\* A second select that waits for the channel read alone.
CloseCaseMissing == FALSE

\* case <-sr.close of the second select is ready.
CloseCase == sr.close

\* A second select with a case <-ctx.Done().
DoneCaseSelected(ctx) == ctx # "live"

\* The cases of the second select are <-read and <-sr.close: none waits
\* for ctx.
DoneCase(ctx) == FALSE

\* A case <-sr.close that takes the signal away, as a receive of a value
\* sent on the channel would.
AfterCloseCaseTakesSignal(r) == [r EXCEPT !.close = FALSE]

\* case <-sr.close receives from a closed channel, which stays closed.
AfterCloseCase(r) == r

\* The second select of signalReceiver.RecvMessage takes case <-sr.close.
RecvMessageClosed ==
    /\ rcv.pc = "select"
    /\ CloseCase \/ DoneCase(rcv.ctx)
    /\ rcv' = [rcv EXCEPT !.pc = "idle", !.msg = NoMessage,
                          !.err = "errRecvOnClosed"]
    /\ sr' = AfterCloseCase(sr)
    /\ UNCHANGED <<env, rwc, s, conn, ops, snd, rcl, dec>>

----------------------------------------------------------------------------
(* Specifications *)

\* CloseSend and CloseRecv, interleaved.
NextClose ==
    \/ CloseSendCall \/ CloseSendLock \/ CloseSendMask
    \/ CloseSendHalf \/ CloseSendClose
    \/ CloseRecvCall \/ CloseRecvLock \/ CloseRecvMask
    \/ CloseRecvHalf \/ CloseRecvClose

\* CloseRecv from a second goroutine.
NextOtherCloseRecv ==
    \/ OtherCloseRecvCall \/ OtherCloseRecvLock \/ OtherCloseRecvMask
    \/ OtherCloseRecvHalf \/ OtherCloseRecvClose

\* CloseSend, and CloseRecv from two goroutines at once.
SpecCloseRecvTwice == Init /\ [][NextClose \/ NextOtherCloseRecv]_vars

\* The receive side: RecvMessage, its decoder and the peer, while the ctx
\* of every RecvMessage stays live.
NextRecvLive ==
    \/ PeerWrite \/ PeerClose
    \/ \E i \in 1..MaxRecvMessage : DecodeRead(i)
    \/ \E i \in 1..MaxRecvMessage : DecodeFail(i)
    \/ RecvMessageCall \/ RecvMessageReturn \/ RecvMessageClosed

\* The receive side, the ctx of a RecvMessage ending at any time.
NextRecv == NextRecvLive \/ RecvCtxDone

\* The send side: NewMessage and its send and cancel.
NextSend ==
    \/ NewMessageCall \/ CancelCall \/ SendCall \/ SendSetDeadline
    \/ EncodeWrite \/ EncodeFail

Next == NextClose \/ NextRecv \/ NextSend

Spec == Init /\ [][Next]_vars

\* The two close calls alone.
SpecClose == Init /\ [][NextClose]_vars

\* The send side with both close calls.
SpecSend == Init /\ [][NextClose \/ NextSend]_vars

\* CloseRecv while the send half stays open: it never comes to Close.
NextCloseRecvFirst ==
    \/ CloseRecvCall \/ CloseRecvLock \/ CloseRecvMask \/ CloseRecvHalf

\* The receive side against CloseRecv, the send half staying open.
SpecRecv == Init /\ [][NextCloseRecvFirst \/ NextRecv]_vars

\* CloseSend while the receive half stays open: it never comes to Close.
NextCloseSendFirst ==
    \/ CloseSendCall \/ CloseSendLock \/ CloseSendMask \/ CloseSendHalf

\* The send side against CloseSend, the receive half staying open.
SpecSendFirst == Init /\ [][NextCloseSendFirst \/ NextSend]_vars

\* A stalled stream: the Write of a send and the Read of a Decode block
\* and do not return.
NextStalled ==
    \/ NewMessageCall \/ SendCall \/ SendSetDeadline
    \/ RecvMessageCall

\* Both close calls against sends and receives on a stalled stream.
SpecStalled == Init /\ [][NextClose \/ NextStalled]_vars

\* Every operation of the transport against both close calls, on a stream
\* with SetWriteDeadline and CloseWrite: one NewMessage with
\* context.Background(), sent or canceled, and one RecvMessage, the peer
\* writing one frame or closing its end.
InitMask == Init /\ rwc.SetWriteDeadline /\ rwc.CloseWrite

NextMask ==
    \/ NextClose
    \/ NewMessageBackground /\ snd.newMessages = 0
    \/ CancelCall \/ SendCall \/ SendSetDeadline
    \/ EncodeWrite \/ EncodeFail
    \/ PeerWrite /\ conn.peerChunks < FrameParts
    \/ PeerClose /\ conn.peerChunks = 0
    \/ DecodeRead(1) \/ DecodeFail(1)
    \/ RecvMessageCall /\ rcv.recvs = 0
    \/ RecvMessageReturn \/ RecvMessageClosed

SpecMask == InitMask /\ [][NextMask]_vars

\* The accessor calls on a struct that the caller allocated with one of
\* NewMessage(seg), NewReturn(seg), NewResolve(seg), NewCapDescriptor(seg)
\* and NewMessageTarget(seg), next to an unused transport.
InitAccessors ==
    /\ rwc = [SetWriteDeadline |-> TRUE, CloseRead |-> TRUE, CloseWrite |-> TRUE]
    /\ s = NewStreamTransport(rwc)
    /\ conn = InitConn
    /\ ops = <<>>
    /\ snd = InitSnd
    /\ rcl = InitRcl
    /\ rcv = InitRcv
    /\ sr = [close |-> FALSE]
    /\ dec = <<>>
    /\ \E type \in UnionTypes : env = NewEnv(New(type))

\* A caller that fills messages with accessor calls that succeed and sends
\* them on a stream with every optional interface, and a peer that
\* receives them.
InitRoundTrip == Init /\ \A f \in DOMAIN rwc : rwc[f]

NextRoundTrip ==
    \/ NewMessageBackground
    \/ UnionSetTag
    \/ UnionSetPayload /\ env'.err = nil
    \/ FieldSet /\ env'.err = nil
    \/ ListSet /\ env'.err = nil
    \/ SendCall
    \/ SendSetDeadline
    \/ EncodeWrite
    \/ PeerRecvMessage

SpecRoundTrip == InitRoundTrip /\ [][NextRoundTrip]_vars

\* The accessor calls on a struct of one of the other types that the caller
\* allocated: NewRelease(seg), NewFinish(seg), NewCall(seg), NewPayload(seg),
\* NewPromisedAnswer(seg).
PlainTypes == {"Release", "Finish", "Call", "Payload", "PromisedAnswer"}
InitStructs ==
    /\ rwc = [SetWriteDeadline |-> TRUE, CloseRead |-> TRUE, CloseWrite |-> TRUE]
    /\ s = NewStreamTransport(rwc)
    /\ conn = InitConn
    /\ ops = <<>>
    /\ snd = InitSnd
    /\ rcl = InitRcl
    /\ rcv = InitRcv
    /\ sr = [close |-> FALSE]
    /\ dec = <<>>
    /\ \E type \in PlainTypes \cup {"Return"} : env = NewEnv(New(type))

NextAccessors == UnionSetTag \/ UnionSetPayload \/ FieldSet \/ ListSet

\* An Exception with some type, and a string that the caller holds: the
\* caller prints the type of the Exception, or sets the type from the
\* string it holds.
ExceptionTypeInputs == 0..MaxExceptionType \cup {65535}
NameInputs == {"failed", "overloaded", "disconnected", "unimplemented",
               "", "Failed", "unimplemente", "aborted"}
InitExceptionType ==
    /\ rwc = [SetWriteDeadline |-> TRUE, CloseRead |-> TRUE, CloseWrite |-> TRUE]
    /\ s = NewStreamTransport(rwc)
    /\ conn = InitConn
    /\ ops = <<>>
    /\ snd = InitSnd
    /\ rcl = InitRcl
    /\ rcv = InitRcv
    /\ sr = [close |-> FALSE]
    /\ dec = <<>>
    /\ \E c \in ExceptionTypeInputs : \E name \in NameInputs :
         env = [NewEnv(SetType(New("Exception"), c))
                  EXCEPT !.last = Last(<<>>, "name", name)]

\* name := e.Type().String()
TypeString ==
    /\ env' = [env EXCEPT
                 !.last = Last(<<>>, "String", Exception_Type_String(Type(env.root)))]
    /\ UNCHANGED <<rwc, s, conn, ops, snd, rcl, rcv, sr, dec>>

\* e.SetType(Exception_TypeFromString(name))
TypeFromString ==
    /\ env' = [env EXCEPT
                 !.root = SetType(@, Exception_TypeFromString(env.last.val)),
                 !.last = Last(<<>>, "FromString", env.last.val)]
    /\ UNCHANGED <<rwc, s, conn, ops, snd, rcl, rcv, sr, dec>>

SpecExceptionType == InitExceptionType /\ [][TypeString \/ TypeFromString]_vars

\* The accessor calls on a struct of any of the types that carry a union.
InitUnions ==
    /\ rwc = [SetWriteDeadline |-> TRUE, CloseRead |-> TRUE, CloseWrite |-> TRUE]
    /\ s = NewStreamTransport(rwc)
    /\ conn = InitConn
    /\ ops = <<>>
    /\ snd = InitSnd
    /\ rcl = InitRcl
    /\ rcv = InitRcv
    /\ sr = [close |-> FALSE]
    /\ dec = <<>>
    /\ \E type \in UnionTypes \cup GroupUnionTypes \cup {"PromisedAnswer_Op"} :
         env = NewEnv(New(type))

SpecUnions == InitUnions /\ [][NextAccessors]_vars

SpecAccessors == InitAccessors /\ [][NextAccessors]_vars
SpecStructs == InitStructs /\ [][NextAccessors]_vars

\* The scheduler runs every goroutine that can take a step, and a call on
\* the stream returns when the stream lets it: each step of a running call
\* is weakly fair.  Whether a caller begins another call, and what the
\* peer does, is left open.
FairSpecRecv ==
    /\ Init /\ [][NextCloseRecvFirst \/ NextRecvLive]_vars
    /\ WF_vars(CloseRecvLock) /\ WF_vars(CloseRecvMask) /\ WF_vars(CloseRecvHalf)
    /\ \A i \in 1..MaxRecvMessage : WF_vars(DecodeRead(i)) /\ WF_vars(DecodeFail(i))
    /\ WF_vars(RecvMessageReturn) /\ WF_vars(RecvMessageClosed)

\* On the stalled stream only the steps that need no stream are fair: the
\* Lock of a close call once s.mu is free, and its critical section.  A
\* call on the stream may block for ever.
FairSpecStalled ==
    /\ SpecStalled
    /\ WF_vars(CloseSendLock) /\ WF_vars(CloseSendMask)
    /\ WF_vars(CloseRecvLock) /\ WF_vars(CloseRecvMask)

----------------------------------------------------------------------------
(* Properties of CloseSend and CloseRecv *)

\* The calls of Close on the stream, as positions of ops.
CloseCalls == {i \in DOMAIN ops : ops[i].op = "Close"}

\* The caller's last CloseSend / CloseRecv has returned (it did not panic).
SendReturned == snd.pc = "idle" /\ snd.op = "CloseSend"
RecvReturned == rcl.pc = "idle" /\ rcl.op = "CloseRecv"

\* The caller's last CloseSend / CloseRecv has ended, by return or by panic.
SendEnded == snd.op = "CloseSend" /\ snd.pc \in {"idle", "panic"}
RecvEnded == rcl.op = "CloseRecv" /\ rcl.pc \in {"idle", "panic"}

\* C1: under every interleaving of CloseSend and CloseRecv calls, repeated
\* ones included, Close is invoked on the stream at most once and only by a
\* call that saw closes = 3; once a CloseSend and a CloseRecv have both been
\* called and every such call has returned, Close was invoked exactly once.
C1_CloseExactlyOnce ==
    /\ Cardinality(CloseCalls) <= 1
    /\ \A i \in CloseCalls : ops[i].closes = 3
    /\ (SendReturned /\ RecvReturned) => Cardinality(CloseCalls) = 1

\* Both halves were closed, each call repeated, and Close was called once.
C1_Witness ==
    /\ SendReturned /\ RecvReturned
    /\ snd.closeSends = 2 /\ rcl.closeRecvs = 2
    /\ Cardinality(CloseCalls) = 1

\* C2: a second CloseSend returns an error, invokes neither CloseWrite nor
\* Close and leaves the mask as it was; the same for a second CloseRecv
\* with the receiver's close step and Close.
C2_SecondCloseRejected ==
    /\ (SendReturned /\ snd.closeSends >= 2) =>
          /\ snd.ret = "errSendClosed"
          /\ snd.prims = {}
          /\ snd.after = snd.before
    /\ (RecvReturned /\ rcl.closeRecvs >= 2) =>
          /\ rcl.ret = "errRecvClosed"
          /\ rcl.prims = {}
          /\ rcl.after = rcl.before
    /\ Cardinality({i \in DOMAIN ops : ops[i].op = "CloseWrite"}) <= 1
    /\ Cardinality({i \in DOMAIN ops : ops[i].op = "CloseRead"}) <= 1
    /\ sr.close => rcl.closeRecvs >= 1

\* A second CloseSend and a second CloseRecv have both been rejected.
C2_Witness ==
    /\ SendReturned /\ snd.closeSends = 2 /\ snd.ret = "errSendClosed"
    /\ RecvReturned /\ rcl.closeRecvs = 2 /\ rcl.ret = "errRecvClosed"

\* C3: after a CloseSend and a second, rejected CloseSend, the first
\* CloseRecv is not rejected and is the call that invokes Close; the same
\* with CloseSend and CloseRecv exchanged.
C3_OtherHalfUnaffected ==
    /\ (RecvEnded /\ rcl.closeRecvs = 1 /\ rcl.since >= 2) =>
          /\ rcl.ret \notin {"errRecvClosed", "panic"}
          /\ "Close" \in rcl.prims
    /\ (SendEnded /\ snd.closeSends = 1 /\ snd.since >= 2) =>
          /\ snd.ret \notin {"errSendClosed", "panic"}
          /\ "Close" \in snd.prims

\* C4: over a stream without CloseWrite, CloseSend completes without a
\* fault: it calls no half-close primitive, sets the send bit, and performs
\* the final Close when the receive half is already closed.
C4_CloseSendWithoutCloseWrite ==
    ~rwc.CloseWrite =>
        /\ snd.pc # "panic"
        /\ \A i \in DOMAIN ops : ops[i].op # "CloseWrite"
        /\ (SendReturned /\ snd.closeSends = 1) =>
              /\ SendBit(s.closes) = 1
              /\ snd.since >= 1 => "Close" \in snd.prims

\* C5: a close call that sees both its half-close step and the final Close
\* fail returns the half-close error; the error of Close is returned only
\* when the half-close step succeeded.
C5_HalfCloseErrorFirst ==
    /\ (SendReturned /\ "Close" \in snd.prims) =>
          snd.ret = IF snd.werr # nil THEN snd.werr ELSE snd.cerr
    /\ (RecvReturned /\ "Close" \in rcl.prims) =>
          rcl.ret = IF rcl.rerr # nil THEN rcl.rerr ELSE rcl.cerr

\* C6: a close call that is the first of the two halves returns exactly the
\* result of its half-close step and does not invoke Close; a close call
\* that performs the final Close returns nil exactly when its half-close
\* step and Close both returned nil.
C6_NoErrorSwallowed ==
    /\ (SendReturned /\ snd.before = 0 /\ snd.after = 1) =>
          snd.ret = snd.werr /\ "Close" \notin snd.prims
    /\ (RecvReturned /\ rcl.before = 0 /\ rcl.after = 2) =>
          rcl.ret = rcl.rerr /\ "Close" \notin rcl.prims
    /\ (SendReturned /\ "Close" \in snd.prims) =>
          (snd.ret = nil <=> (snd.werr = nil /\ snd.cerr = nil))
    /\ (RecvReturned /\ "Close" \in rcl.prims) =>
          (rcl.ret = nil <=> (rcl.rerr = nil /\ rcl.cerr = nil))

\* The final Close succeeded after a failed CloseWrite: the call reports it.
C6_Witness ==
    /\ SendReturned /\ "Close" \in snd.prims
    /\ snd.werr # nil /\ snd.cerr = nil /\ snd.ret = snd.werr
    /\ RecvReturned /\ rcl.before = 0 /\ rcl.after = 2 /\ rcl.rerr # nil

\* C7: the mask is always one of 0, 1, 2, 3; no step clears a bit that is
\* set; and no step changes the mask once it is 3.
C7_MaskOnlyForward ==
    /\ [](s.closes \in 0..3)
    /\ [][/\ SendBit(s.closes) = 1 => SendBit(s'.closes) = 1
          /\ RecvBit(s.closes) = 1 => RecvBit(s'.closes) = 1
          /\ s.closes = 3 => s'.closes = 3]_vars

\* The mask is 3 and a further CloseSend and CloseRecv have run against it.
C7_Witness ==
    /\ s.closes = 3
    /\ SendReturned /\ snd.closeSends = 2 /\ snd.before = 3
    /\ RecvReturned /\ rcl.closeRecvs = 2 /\ rcl.before = 3

\* C8: once CloseSend and CloseRecv have both been called and their
\* half-close steps are over, Close is invoked on the stream, whichever of
\* CloseRead, CloseWrite and SetWriteDeadline the stream implements.
C8_CloseFollowsBothHalves ==
    (SendEnded /\ RecvEnded) => CloseCalls # {}

----------------------------------------------------------------------------
(* Properties of RecvMessage against CloseRecv *)

\* RecvMessage is inside Decode, whose Read has nothing to read.
RecvBlockedInRead ==
    /\ rcv.pc = "decode"
    /\ ~dec[rcv.task].done
    /\ conn.in = <<>>

\* RecvMessage has returned an error and no message.
RecvFailed == rcv.pc = "idle" /\ rcv.err \notin {nil, "none"} /\ rcv.msg = NoMessage

\* C9: on a stream with CloseRead, a RecvMessage that is blocked in its
\* read when CloseRecv is called returns: it does not hang once CloseRecv
\* has begun, and it returns an error once CloseRecv has shut the read side.
C9_CloseRecvInterruptsRead ==
    /\ (rcv.pc = "decode" /\ rcl.pc # "idle") ~> (rcv.pc = "idle")
    /\ (RecvBlockedInRead /\ "CloseRead" \in rcl.prims) ~> RecvFailed

\* C10: on a stream without CloseRead, a RecvMessage waiting in its select
\* returns once CloseRecv is called, with an error whenever its decode has
\* not completed, and no step of the stream or the decoder is needed.
C10_CloseRecvEndsSelect ==
    /\ (rcv.pc = "select" /\ rcl.pc # "idle") ~> (rcv.pc = "idle")
    /\ (rcv.pc = "select" /\ sr.close) ~> (rcv.pc = "idle")
    /\ [][(rcv.pc = "select" /\ rcv'.pc = "idle" /\ ~dec[rcv.task].done)
            => (sr.close /\ rcv'.err = "errRecvOnClosed"
                /\ rcv'.msg = NoMessage /\ dec' = dec /\ conn' = conn)]_vars
\* A RecvMessage that began before any CloseRecv, and was in the middle of
\* a frame, was failed by CloseRead alone: the peer and the stream are up.
C9_Witness ==
    /\ s.recv = "closerReceiver"
    /\ RecvFailed /\ rcv.err = "errRead"
    /\ rcv.since = 0 /\ "CloseRead" \in rcl.prims
    /\ dec[rcv.task].part = 1
    /\ ~conn.peerGone /\ ~conn.closed

\* A RecvMessage that began before any CloseRecv returned from its select
\* with the error while its decode is still reading.
C10_Witness ==
    /\ s.recv = "signalReceiver"
    /\ rcv.pc = "idle" /\ rcv.err = "errRecvOnClosed"
    /\ rcv.since = 0 /\ rcv.task # 0
    /\ ~dec[rcv.task].done

\* C11: on a stream without CloseRead, every RecvMessage that begins after
\* a CloseRecv has returned yields the already-closed error at once: it
\* starts no decode, reads nothing from the stream and returns no message.
C11_RecvAfterCloseRecv ==
    /\ []((s.recv = "signalReceiver" /\ rcv.recvs >= 1 /\ rcv.since >= 1) =>
            /\ rcv.pc = "idle"
            /\ rcv.err = "errRecvOnClosed"
            /\ rcv.msg = NoMessage
            /\ rcv.task = 0)
    /\ [][(/\ s.recv = "signalReceiver"
           /\ rcv'.recvs = rcv.recvs + 1
           /\ Returned(rcl.closeRecvs, rcl.pc) >= 1)
            => (dec' = dec /\ conn' = conn /\ rcv'.got = rcv.got)]_vars

\* A RecvMessage that began after CloseRecv returned was refused although
\* a chunk of a frame was waiting on the stream.
C11_Witness ==
    /\ s.recv = "signalReceiver"
    /\ rcv.pc = "idle" /\ rcv.since >= 1 /\ rcv.recvs >= 1
    /\ rcv.err = "errRecvOnClosed" /\ rcv.task = 0
    /\ conn.in # <<>>

----------------------------------------------------------------------------
(* Properties of NewMessage, send and cancel *)

\* C12: on a stream with SetWriteDeadline, every send calls it before the
\* first Write of its frame, with ctx's deadline when ctx has one and with
\* the zero time when it has none; that deadline is in force while the
\* send is in Encode on a stream that is not closed, and every chunk of
\* every frame is written under the deadline of its own send, never under
\* an earlier send's.
C12_SendSetsOwnDeadline ==
    /\ (s.deadline /\ snd.op = "send" /\ "Write" \in snd.prims) =>
          "SetWriteDeadline" \in snd.prims
    /\ (s.deadline /\ snd.pc = "encode" /\ ~conn.closed) =>
          conn.writeDeadline = IF snd.ctx.deadline = "none" THEN ZeroTime
                               ELSE snd.ctx.deadline
    /\ s.deadline =>
          \A i \in DOMAIN conn.out :
             conn.out[i].deadline = IF conn.out[i].ctx.deadline = "none"
                                    THEN ZeroTime ELSE conn.out[i].ctx.deadline

\* A frame sent under deadline d1 is followed by one sent without deadline,
\* and the second frame was written with the deadline cleared.
C12_Witness ==
    /\ s.deadline
    /\ Len(conn.out) = 2 * FrameParts
    /\ conn.out[1].ctx.deadline = "d1" /\ conn.out[1].deadline = "d1"
    /\ conn.out[2 * FrameParts].ctx.deadline = "none"
    /\ conn.out[2 * FrameParts].deadline = ZeroTime

\* C13: a send invoked after its ctx was canceled writes nothing to the
\* stream and returns an error.
C13_SendHonoursCancelation ==
    (snd.op = "send" /\ snd.ctx.canceled) =>
        /\ "Write" \notin snd.prims
        /\ \A i \in DOMAIN conn.out : conn.out[i].chunk.id # snd.newMessages
        /\ snd.pc = "idle" => snd.ret # nil

\* C14: cancel writes nothing to the stream, sets no write deadline, and
\* leaves the mask and every other state of the transport as it was.
C14_CancelHasNoEffect ==
    /\ [](snd.op = "cancel" =>
            /\ snd.prims = {}
            /\ \A i \in DOMAIN conn.out : conn.out[i].chunk.id # snd.newMessages)
    /\ [][(snd.pc = "msg" /\ snd'.op = "cancel") =>
            /\ conn' = conn /\ s' = s /\ ops' = ops
            /\ sr' = sr /\ dec' = dec /\ rcl' = rcl /\ rcv' = rcv]_vars

\* A message was abandoned on a stream that carried a deadline from the
\* send before it, after the send half was closed.
C14_Witness ==
    /\ snd.op = "cancel" /\ snd.newMessages = 2
    /\ conn.writeDeadline = "d1" /\ Len(conn.out) = FrameParts
    /\ s.closes = 1

----------------------------------------------------------------------------
(* Properties of the frames RecvMessage returns *)

\* C15: the frames returned by successful RecvMessage calls are, in order,
\* the first frames that sends of the peer wrote completely: one message
\* per frame, none reordered, repeated, skipped or merged.
C15_ReceivedPrefixOfSent ==
    /\ Len(rcv.got) <= Len(conn.peerSent)
    /\ \A k \in DOMAIN rcv.got : rcv.got[k] = conn.peerSent[k]

\* Two frames were sent and both were received, in order.
C15_Witness ==
    /\ Len(conn.peerSent) = 2
    /\ rcv.got = conn.peerSent
    /\ rcv.pc = "idle" /\ rcv.err = nil /\ rcv.msg.id = 2

RecvWaiting ==
    /\ rcv.pc \in {"decode", "select"}
    /\ ~dec[rcv.task].done
    /\ ~sr.close

\* C19: RecvMessage pays no attention to its ctx: a waiting call whose ctx
\* is canceled or past its deadline goes on waiting, and a call returns
\* only when its Decode has completed or failed or when CloseRecv has
\* closed the receiver.
C19_RecvIgnoresCtx ==
    /\ []((RecvWaiting /\ rcv.ctx # "live") =>
            ~ENABLED (RecvMessageReturn \/ RecvMessageClosed))
    /\ [][(rcv.pc \in {"decode", "select"} /\ rcv'.pc = "idle") =>
            \/ dec[rcv.task].done
            \/ s.recv = "signalReceiver" /\ sr.close]_vars
    /\ [][(rcv.pc \in {"decode", "select"} /\ rcv.ctx # rcv'.ctx) =>
            /\ rcv'.pc = rcv.pc
            /\ rcv'.msg = rcv.msg /\ rcv'.err = rcv.err /\ dec' = dec]_vars

\* The ctx of a waiting RecvMessage was canceled; the call went on waiting
\* and has now returned the frame that arrived afterwards.
C19_Witness ==
    /\ rcv.pc = "idle" /\ rcv.ctx = "done"
    /\ rcv.err = nil /\ rcv.msg.root = "ok"
    /\ ~sr.close /\ ~conn.readClosed

----------------------------------------------------------------------------
(* Properties of s.mu *)

\* The send-side caller is inside a call on the stream, or about to make it.
SendInStreamCall == snd.pc \in {"send_deadline", "encode", "cs_half", "cs_close"}
\* The caller of RecvMessage is inside Decode, whose Read has not returned.
RecvInStreamCall == rcv.pc \in {"decode", "select"} /\ ~dec[rcv.task].done

\* C18: s.mu is held only by a close call in its critical section, never
\* by a caller that is in a call on the stream; so a CloseRecv that waits
\* for s.mu while a send is blocked in its stream call, and a CloseSend
\* that waits while a RecvMessage is blocked in its read, get s.mu and
\* complete their critical section.
C18_MutexNotHeldAcrossIO ==
    /\ [](/\ s.mu \in {"unlocked", "CloseSend", "CloseRecv"}
          /\ s.mu = "CloseSend" => snd.pc = "cs_mask"
          /\ s.mu = "CloseRecv" => rcl.pc = "cr_mask"
          /\ (SendInStreamCall /\ rcl.pc = "cr_lock") => ENABLED CloseRecvLock
          /\ (RecvInStreamCall /\ snd.pc = "cs_lock" /\ rcl.pc # "cr_mask")
                => ENABLED CloseSendLock)
    /\ (rcl.pc = "cr_lock") ~> (rcl.pc \notin {"cr_lock", "cr_mask"})
    /\ (snd.pc = "cs_lock") ~> (snd.pc \notin {"cs_lock", "cs_mask"})

\* A send is blocked in Encode and a RecvMessage in its read, and CloseRecv
\* has set the receive bit and released s.mu all the same.
C18_Witness ==
    /\ snd.pc = "encode"
    /\ RecvInStreamCall /\ rcv.since = 0
    /\ rcl.pc = "cr_half" /\ rcl.after = 2
    /\ s.mu = "unlocked" /\ s.closes = 2

----------------------------------------------------------------------------
(* Properties of the union accessors *)

\* The structs of the message that have a union.
UnionStructs ==
    { st \in { StructAt(env.root, path) : path \in Paths(env.root) } :
        st.type \in UnionTypes }

\* C20: in every state that the setters and constructors of a Message,
\* Return, Resolve, CapDescriptor or MessageTarget can produce, between
\* the two writes of a setter included, a Has<variant> accessor is true
\* only if Which() is that variant, and no two Has accessors are true.
C20_HasOnlyForWhich ==
    \A st \in UnionStructs :
        \A v \in Variants(st.type) :
            Has(st, v) =>
                /\ Which(st) = v.tag
                /\ \A w \in Variants(st.type) : Has(st, w) => w = v

\* A setter of one variant has succeeded and a setter of another variant
\* has then written its tag and failed: Has is true for the second variant
\* while the pointer is still the payload of the first.
C20_Witness ==
    /\ env.call = NoCall
    /\ env.err # nil
    /\ \E st \in UnionStructs :
         \E v \in Variants(st.type) :
            /\ Has(st, v)
            /\ v.payload # "AnyPointer"
            /\ Ptr(st, 0).p.elems[1].type # v.payload

----------------------------------------------------------------------------
(* Round trip of a message *)

\* The message that the peer received last, as its sender built it.
LastBuilt == conn.out[conn.peerRead * FrameParts].built

----------------------------------------------------------------------------
(* The order of the writes of a union setter *)

\* The struct that the accessor call in progress works on, and its variant.
CallStruct == StructAt(env.root, env.call.path)
CallVariant == VariantNamed(CallStruct.type, env.call.name)

----------------------------------------------------------------------------
(* Properties of the plain fields *)

\* The structs of the message.
AllStructs == { StructAt(env.root, path) : path \in Paths(env.root) }
\* The struct on which the caller called a plain setter last.
LastStruct == StructAt(env.root, env.last.path)

\* C22: ReleaseParamCaps and ReleaseResultCaps read true on a newly
\* allocated struct, and after Set(v), for either v, the getter returns v
\* while the data bit holds the opposite.
C22_InvertedFlags ==
    /\ \A st \in AllStructs :
         /\ st = New("Return") => ReleaseParamCaps(st)
         /\ st = New("Finish") => ReleaseResultCaps(st)
    /\ env.last.name = "releaseParamCaps" =>
         /\ ReleaseParamCaps(LastStruct) = env.last.val
         /\ Bit(LastStruct, 32) = ~env.last.val
    /\ env.last.name = "releaseResultCaps" =>
         /\ ReleaseResultCaps(LastStruct) = env.last.val
         /\ Bit(LastStruct, 32) = ~env.last.val

\* SetReleaseParamCaps(false) was called on a Return whose answerId is set,
\* and the flag reads false.
C22_Witness ==
    /\ env.last.name = "releaseParamCaps"
    /\ env.last.val = FALSE
    /\ ~ReleaseParamCaps(LastStruct)
    /\ Uint32(LastStruct, 0) # U32(0, 0)

\* C24: after SetId(id) the getter Id() returns id, after
\* SetReferenceCount(n) the getter ReferenceCount() returns n, for zero,
\* the largest and any other 32-bit value, and the call of either setter
\* leaves what the other getter returns unchanged.
C24_ReleaseFieldsExact ==
    /\ [](/\ env.last.name = "id" => ReleaseId(LastStruct) = env.last.val
          /\ env.last.name = "referenceCount" =>
                ReleaseReferenceCount(LastStruct) = env.last.val)
    /\ [][LET before == StructAt(env.root, env'.last.path)
              after  == StructAt(env'.root, env'.last.path)
          IN  /\ (env'.calls = env.calls + 1 /\ env'.last.name = "id") =>
                    ReleaseReferenceCount(after) = ReleaseReferenceCount(before)
              /\ (env'.calls = env.calls + 1
                    /\ env'.last.name = "referenceCount") =>
                    ReleaseId(after) = ReleaseId(before)]_vars

\* Both fields of a Release hold the largest value, the reference count
\* set last.
C24_Witness ==
    /\ env.last.name = "referenceCount"
    /\ env.last.val = MaxUint32
    /\ ReleaseReferenceCount(LastStruct) = MaxUint32
    /\ ReleaseId(LastStruct) = MaxUint32

----------------------------------------------------------------------------
(* Properties of the lists *)

\* The struct that the step in progress writes to.
TargetPath ==
    IF env.call # NoCall THEN env.call.path
    ELSE IF env'.call # NoCall THEN env'.call.path
    ELSE env'.last.path

\* The list fields of the structs that the message has before and after a
\* step, as pairs of the struct's path and the field.
ListFields ==
    { pf \in (Paths(env.root) \cap Paths(env'.root))
              \X { Field("capTable", "list", 1, "CapDescriptor"),
                   Field("transform", "list", 0, "PromisedAnswer_Op") } :
        /\ pf[2] \in Fields(StructAt(env.root, pf[1]).type)
        /\ Ptr(StructAt(env.root, pf[1]), pf[2].at).p.kind = "list" }

----------------------------------------------------------------------------
(* Properties of the getters *)

\* C25: on a struct whose pointer slot is null, every getter of a struct in
\* that slot returns no error and the zero struct, whose scalar fields read
\* as their defaults (zero, tag 0, release flag true) and whose own
\* getters do the same; the Has accessors of the slot return false.
C25_NullPointerGetters ==
    \A st \in AllStructs : \A g \in StructGetters(st.type) :
        Ptr(st, g.slot).p = NullPtr =>
            LET r == StructGetter(st, g.slot, g.type) IN
            /\ r.err = nil
            /\ r.val = ZeroStruct(g.type)
            /\ Uint32(r.val, 0) = U32(0, 0)
            /\ Uint16(r.val, 0) = 0
            /\ Which(r.val) = 0
            /\ ReleaseParamCaps(r.val)
            /\ \A h \in StructGetters(g.type) :
                 /\ StructGetter(r.val, h.slot, h.type).err = nil
                 /\ StructGetter(r.val, h.slot, h.type).val = ZeroStruct(h.type)
            /\ \A v \in Variants(st.type) : v.off = g.slot => ~Has(st, v)
            /\ \A f \in Fields(st.type) :
                 f.kind = "struct" /\ f.at = g.slot => ~HasField(st, f)

\* The message holds a Call whose target and params are absent, and
\* Params() gives the zero Payload.
C25_Witness ==
    \E st \in AllStructs :
        /\ st.type = "Call"
        /\ Ptr(st, 0).p = NullPtr
        /\ Ptr(st, 1).p = NullPtr
        /\ StructGetter(st, 1, "Payload").val = ZeroStruct("Payload")

----------------------------------------------------------------------------
(* Close calls against the other operations *)

\* C26: Close is invoked on the stream only after the half-close steps of
\* both halves: no CloseWrite and no CloseRead follows a Close.
C26_CloseAfterBothHalfCloses ==
    \A i \in CloseCalls : \A j \in DOMAIN ops :
        j > i => ops[j].op \notin {"CloseWrite", "CloseRead"}

\* C27: a send of a message that NewMessage gave after CloseSend set the
\* send bit calls neither SetWriteDeadline nor Write on the stream, and
\* returns the error of a closed send half.
C27_SendAfterCloseSend ==
    (SendBit(s.closes) = 1 /\ snd.op = "send") =>
        /\ snd.prims = {}
        /\ snd.pc = "idle" => snd.ret = "errSendClosed"

\* C28: the send bit of the mask changes only in the critical section of
\* CloseSend and only to 1, the receive bit only in that of CloseRecv and
\* only to 1, neither changing the other bit; a step of NewMessage, send,
\* cancel or RecvMessage, a step that returns an error included, leaves
\* the mask as it is.
C28_MaskChangedByCloseOnly ==
    [][/\ SendBit(s'.closes) # SendBit(s.closes) =>
            /\ snd.op = "CloseSend" /\ snd.pc = "cs_mask"
            /\ SendBit(s'.closes) = 1
            /\ RecvBit(s'.closes) = RecvBit(s.closes)
       /\ RecvBit(s'.closes) # RecvBit(s.closes) =>
            /\ rcl.op = "CloseRecv" /\ rcl.pc = "cr_mask"
            /\ RecvBit(s'.closes) = 1
            /\ SendBit(s'.closes) = SendBit(s.closes)
       /\ (snd' # snd /\ snd'.op \in {"NewMessage", "send", "cancel"}) =>
            s'.closes = s.closes
       /\ rcv' # rcv => s'.closes = s.closes]_vars

\* A send and a RecvMessage have both returned an error, after CloseRecv
\* alone has set its bit.
C28_Witness ==
    /\ s.closes = 2
    /\ snd.op = "send" /\ snd.pc = "idle" /\ snd.ret = "errWrite"
    /\ rcv.pc = "idle" /\ rcv.err \notin {nil, "none"}

\* The Decode that a RecvMessage started is still in its Read, which has
\* nothing to return: no data, and the peer's end open.
DecodeBlocked(i) ==
    /\ ~dec[i].done
    /\ conn.in = <<>>
    /\ ~conn.peerGone

\* C29: on a stream without CloseRead, CloseRecv calls nothing on the
\* stream but the final Close, and that only when CloseSend has set its bit
\* too; a blocked Decode cannot take a step while the stream is not
\* closed, whether or not its RecvMessage has returned, and ends only
\* with the stream closed.
C29_AbandonedDecodeNeedsClose ==
    /\ [](~rwc.CloseRead =>
            /\ \A k \in DOMAIN ops :
                 ops[k].by = "CloseRecv" =>
                    ops[k].op = "Close" /\ ops[k].closes = 3
            /\ conn.closed => SendBit(s.closes) = 1
            /\ ~conn.closed => ~conn.readClosed
            /\ \A i \in DOMAIN dec :
                 (DecodeBlocked(i) /\ ~conn.closed) =>
                    ~ENABLED DecodeRead(i) /\ ~ENABLED DecodeFail(i))
    /\ [][~rwc.CloseRead =>
            \A i \in DOMAIN dec :
               (DecodeBlocked(i) /\ dec'[i].done) => conn.closed]_vars

\* CloseRecv has returned without a call on the stream, the RecvMessage it
\* interrupted has returned, and the Decode of that RecvMessage is blocked.
C29_Witness ==
    /\ ~rwc.CloseRead
    /\ rcl.op = "CloseRecv" /\ rcl.pc = "idle" /\ rcl.ret = nil
    /\ ops = <<>>
    /\ rcv.pc = "idle" /\ rcv.err = "errRecvOnClosed"
    /\ rcv.task \in DOMAIN dec
    /\ DecodeBlocked(rcv.task)

\* The Decode calls that have not returned.
RunningDecodes == {i \in DOMAIN dec : ~dec[i].done}

\* C30: on a stream without CloseRead, with one RecvMessage at a time and
\* CloseRecv at any moment, at most one Decode is running at any time, and
\* RecvMessage starts a Decode only when every earlier one has returned.
C30_OneDecodeAtATime ==
    /\ [](~rwc.CloseRead => Cardinality(RunningDecodes) <= 1)
    /\ [][(~rwc.CloseRead /\ Len(dec') > Len(dec)) => RunningDecodes = {}]_vars

\* A RecvMessage has returned the closed error without a Decode of its
\* own while the Decode that an earlier RecvMessage left behind is running.
C30_Witness ==
    /\ ~rwc.CloseRead
    /\ rcv.pc = "idle" /\ rcv.recvs = 2
    /\ rcv.err = "errRecvOnClosed" /\ rcv.task = 0
    /\ Len(dec) = 1
    /\ RunningDecodes = {1}

\* The goroutines that call CloseRecv: where each is, and what its last
\* call returned.
CloseRecvCallers == {[pc |-> rcl.pc, ret |-> rcl.ret],
                     [pc |-> rcl.other.pc, ret |-> rcl.other.ret]}

\* C31: on a stream without CloseRead, however CloseRecv calls follow one
\* another or run at the same time, no call faults by closing sr.close
\* twice, at most one call ever passes the mask test on its way to
\* sr.close, sr.close is closed by a call that passed the test and never
\* reopened, and a call that finds the receive bit set returns the error
\* and leaves sr.close alone.
C31_SignalClosedOnce ==
    /\ [](~rwc.CloseRead =>
            /\ \A c \in CloseRecvCallers : c.pc # "panic" /\ c.ret # "panic"
            /\ ~(rcl.pc = "cr_half" /\ rcl.other.pc = "cr_half")
            /\ (rcl.pc = "cr_half" \/ rcl.other.pc = "cr_half") => ~sr.close)
    /\ [][~rwc.CloseRead =>
            /\ sr.close => sr'.close
            /\ (~sr.close /\ sr'.close) =>
                  \/ rcl.pc = "cr_half" /\ rcl'.pc # "cr_half"
                  \/ rcl.other.pc = "cr_half" /\ rcl'.other.pc # "cr_half"
            /\ (s.closes \in {2, 3} /\ rcl.pc = "cr_mask" /\ rcl'.pc # "cr_mask")
                  => rcl'.pc = "idle" /\ rcl'.ret = "errRecvClosed" /\ sr' = sr
            /\ (s.closes \in {2, 3} /\ rcl.other.pc = "cr_mask"
                    /\ rcl'.other.pc # "cr_mask")
                  => /\ rcl'.other.pc = "idle"
                     /\ rcl'.other.ret = "errRecvClosed"
                     /\ sr' = sr]_vars

\* Two CloseRecv calls ran at the same time and a third followed: sr.close
\* is closed, one call returned nil and the others the error.
C31_Witness ==
    /\ ~rwc.CloseRead
    /\ sr.close
    /\ rcl.pc = "idle" /\ rcl.closeRecvs = 2 /\ rcl.ret = "errRecvClosed"
    /\ rcl.other.pc = "idle" /\ rcl.other.closeRecvs = 1
    /\ rcl.other.ret = nil
    /\ snd.op = "none"

\* The step is a NewMessage call.
NewMessageStep == snd'.op = "NewMessage" /\ snd'.newMessages = snd.newMessages + 1

\* C32: NewMessage calls nothing on the stream (no Write, no
\* SetWriteDeadline, none of the close primitives), leaves the transport
\* as it was and returns a nil error; the stream's write deadline changes
\* only in a send, to the deadline of that send's ctx; and on a stream
\* without SetWriteDeadline a send writes its frame with no deadline call,
\* the stream's deadline never being set.
C32_NewMessageTouchesNoStream ==
    /\ [](snd.op = "NewMessage" =>
            /\ snd.prims = {} /\ snd.ret = nil /\ snd.pc = "msg"
            /\ \A i \in DOMAIN conn.out :
                 conn.out[i].chunk.id # snd.newMessages)
    /\ [](~rwc.SetWriteDeadline =>
            /\ "SetWriteDeadline" \notin snd.prims
            /\ conn.writeDeadline = "unset"
            /\ \A i \in DOMAIN conn.out : conn.out[i].deadline = "unset")
    /\ [][NewMessageStep => (conn' = conn /\ ops' = ops /\ s' = s)]_vars
    /\ [][conn'.writeDeadline # conn.writeDeadline =>
            /\ snd.op = "send" /\ snd'.op = "send"
            /\ "SetWriteDeadline" \in snd'.prims
            /\ "Write" \notin snd'.prims
            /\ conn'.writeDeadline = IF snd.ctx.deadline = "none"
                                     THEN ZeroTime ELSE snd.ctx.deadline]_vars

\* On a stream without SetWriteDeadline a message allocated under a ctx
\* with a deadline was sent whole, and a second message was allocated
\* after the send half had been closed.
C32_Witness ==
    /\ ~rwc.SetWriteDeadline
    /\ snd.op = "NewMessage" /\ snd.newMessages = 2
    /\ Len(conn.out) = FrameParts
    /\ conn.out[1].ctx.deadline = "d1"
    /\ s.closes = 1

\* The struct on which the last union setter was called, and the variant
\* that setter sets.
UnionStruct == StructAt(env.root, env.union.path)
UnionVariant == VariantNamed(UnionStruct.type, env.union.name)

\* C33: once a union setter of a Message, Return, Resolve, CapDescriptor,
\* MessageTarget, Disembargo context, Call sendResultsTo or
\* PromisedAnswer_Op has returned, and whatever setters were called before
\* it and whatever plain fields of the struct were set after it, Which()
\* is the variant of that setter; the getter of a uint32 or uint16 variant
\* returns the value the setter was given, and the pointer of a pointer
\* variant whose setter returned no error is the one it was given.
C33_WhichIsLastSetter ==
    (env.union.name # "none" /\ env.call = NoCall) =>
        /\ Which(UnionStruct) = UnionVariant.tag
        /\ env.union.val.kind = "data" =>
              Uint32(UnionStruct, UnionVariant.off) = env.union.val.v
        /\ env.union.val.kind = "data16" =>
              Uint16(UnionStruct, UnionVariant.off) = env.union.val.v
        /\ env.union.val.kind = "ptr" =>
              /\ Ptr(UnionStruct, UnionVariant.off).p = env.union.val.v
              /\ Ptr(UnionStruct, UnionVariant.off).err = nil

\* SetResults and then SetCanceled were called on a Return: Which() is
\* canceled while the pointer still leads to the results.
C33_Witness ==
    /\ env.root.type = "Return" /\ env.calls = 2 /\ env.call = NoCall
    /\ env.union.name = "canceled" /\ env.union.path = <<>>
    /\ Which(env.root) = 2
    /\ Ptr(env.root, 0).p.kind = "struct"

\* C34: when a union setter or constructor has returned an error, Which()
\* and the payload pointer of the struct are what they were when it was
\* called.
C34_FailedSetterChangesNothing ==
    (env.call = NoCall /\ env.union.val.kind = "error") =>
        /\ Which(UnionStruct) = Which(env.union.val.v)
        /\ Ptr(UnionStruct, UnionVariant.off).p =
              Ptr(env.union.val.v, UnionVariant.off).p

----------------------------------------------------------------------------
(* Layout of Call and Return *)

\* What a getter reads: a scalar of some kind at a byte or bit offset of
\* the data section, the union tag, or the pointer in a slot.
Getter(kind, at) == [kind |-> kind, at |-> at]
FieldGetter(f) ==
    Getter(IF f.kind \in {"struct", "list"} THEN "ptr" ELSE f.kind, f.at)
VariantGetter(v) ==
    Getter(IF v.kind = "data" THEN "uint32" ELSE v.kind, v.off)
GettersOf(type) ==
    { FieldGetter(f) : f \in Fields(type) }
    \cup { VariantGetter(v) : v \in { w \in Variants(type) : w.kind # "void" } }
    \cup { Getter("which", TagOffset(type)) }

\* QuestionId() / AnswerId() / TakeFromOtherQuestion(), MethodId(),
\* InterfaceId(), AllowThirdPartyTailCall(), ReleaseParamCaps(), Which()
\* and the getters of the pointers.
Read(st, g) ==
    CASE g.kind = "uint32" -> Uint32(st, g.at)
      [] g.kind = "uint16" -> MethodId(st)
      [] g.kind = "uint64" -> InterfaceId(st)
      [] g.kind = "bit" -> AllowThirdPartyTailCall(st)
      [] g.kind = "flag" -> ReleaseParamCaps(st)
      [] g.kind = "which" -> Which(st)
      [] OTHER -> Ptr(st, g.at)

\* The step is a setter of a plain field, the first write of a union
\* setter, or its second write.
FieldSetStep == env'.calls = env.calls + 1 /\ env'.last.name \notin {"none", "Set"}
TagStep == env'.calls = env.calls + 1 /\ env'.last.name = "none"
PayloadStep == env.call # NoCall /\ env'.call = NoCall

\* The struct the step writes to, and what the step is meant to write.
WrittenPath ==
    IF FieldSetStep THEN env'.last.path
    ELSE IF TagStep THEN env'.union.path
    ELSE env.call.path
Written ==
    LET type == StructAt(env.root, WrittenPath).type IN
    IF FieldSetStep
    THEN { FieldGetter(f) : f \in { h \in Fields(type) : h.name = env'.last.name } }
    ELSE IF TagStep THEN { Getter("which", TagOffset(type)) }
    ELSE { VariantGetter(VariantNamed(type, env.call.name)) }

\* C35: a setter of a Call or of a Return changes what no other getter of
\* the struct reads: each scalar setter leaves the other scalars, the tag
\* and the pointers as they were; a union setter changes the tag with its
\* first write and its own payload with its second (so
\* SetTakeFromOtherQuestion changes the tag and takeFromOtherQuestion),
\* and nothing else.
C35_FieldsDisjoint ==
    [][(FieldSetStep \/ TagStep \/ PayloadStep) =>
         LET before == StructAt(env.root, WrittenPath)
             after  == StructAt(env'.root, WrittenPath)
         IN  before.type \in {"Call", "Return"} =>
               \A g \in GettersOf(before.type) \ Written :
                  Read(after, g) = Read(before, g)]_vars

\* A Call whose questionId was set and whose methodId was then set to the
\* largest value: both read what they were given, the tag is still 0.
C35_Witness ==
    /\ env.root.type = "Call" /\ env.calls = 2
    /\ env.last.name = "methodId" /\ env.last.path = <<>>
    /\ MethodId(env.root) = 65535
    /\ Uint32(env.root, 0) = U32(1, 515)
    /\ Which(env.root) = 0

----------------------------------------------------------------------------
(* Properties of NewStreamTransport *)

\* C36: for a stream with any subset of SetWriteDeadline, CloseRead and
\* CloseWrite the transport exists with the mask at 0 until a close call
\* sets a bit, with s.deadline and s.cw there exactly when the stream has
\* the method, and with a receiver that is the closerReceiver if and only
\* if the stream has CloseRead and the signalReceiver otherwise; that
\* receiver never changes, and RecvMessage and CloseRecv go the way of
\* that receiver.
C36_ReceiverFixedAtConstruction ==
    /\ s.recv = IF rwc.CloseRead THEN "closerReceiver" ELSE "signalReceiver"
    /\ s.deadline = rwc.SetWriteDeadline
    /\ s.cw = rwc.CloseWrite
    /\ (snd.closeSends = 0 /\ rcl.closeRecvs = 0 /\ rcl.other.closeRecvs = 0)
          => s.closes = 0
    /\ rcv.pc = "decode" => rwc.CloseRead
    /\ rcv.pc = "select" => ~rwc.CloseRead
    /\ sr.close => ~rwc.CloseRead
    /\ "CloseRead" \in rcl.prims => rwc.CloseRead

\* On a stream with none of the optional methods CloseRecv has closed
\* sr.close and a RecvMessage has returned the closed error.
C36_Witness ==
    /\ ~rwc.SetWriteDeadline /\ ~rwc.CloseRead /\ ~rwc.CloseWrite
    /\ s.recv = "signalReceiver" /\ s.closes = 2
    /\ sr.close
    /\ rcv.pc = "idle" /\ rcv.err = "errRecvOnClosed"

----------------------------------------------------------------------------
(* Properties of Exception_Type *)

\* The names of the four defined exception types, by value.
DefinedTypeNames == <<"failed", "overloaded", "disconnected", "unimplemented">>

\* C37: String() of each of the four defined types (0 failed, 1
\* overloaded, 2 disconnected, 3 unimplemented) is its name and
\* Exception_TypeFromString of that name is the type again; String() of
\* every other value is the empty string; Exception_TypeFromString of
\* every other string is failed (0).
C37_ExceptionTypeNames ==
    [][/\ env'.last.name = "String" =>
            LET c == Type(env.root)
                name == env'.last.val
            IN  IF c \in 0..3
                THEN /\ name = DefinedTypeNames[c + 1]
                     /\ Exception_TypeFromString(name) = c
                ELSE name = ""
       /\ env'.last.name = "FromString" =>
            LET name == env.last.val
                c == Type(env'.root)
            IN  IF \E k \in 1..4 : DefinedTypeNames[k] = name
                THEN DefinedTypeNames[c + 1] = name
                ELSE c = 0]_vars

\* The type unimplemented was printed and the type set from what was
\* printed: it is unimplemented (3) again.
C37_Witness ==
    /\ env.root.type = "Exception"
    /\ env.last.name = "FromString" /\ env.last.val = "unimplemented"
    /\ Type(env.root) = 3
====
